---- MODULE Spec2Model ----
(***************************************************************************)
(* A model of lumi's ingestion pipeline: the include queue of the parser   *)
(* (src/src/parse/parser.rs), the merge of the drafts of the parsed files  *)
(* and the checker that replays a LedgerDraft into a Ledger                *)
(* (src/lumi/src/parse/checker.rs).                                        *)
(*                                                                         *)
(* Payee, narration, links, tags and metadata of transactions and postings *)
(* are carried through the checker unchanged and are left out. A Source is *)
(* modelled by the position of the directive in the draft.                 *)
(***************************************************************************)
EXTENDS Integers, Sequences, FiniteSets, TLC

(***************************************************************************)
(* Bounds of the model.                                                    *)
(***************************************************************************)
MaxTxns == 3
MaxDate == 2

(***************************************************************************)
(* Option<T>.                                                              *)
(***************************************************************************)
None == [tag |-> "None"]
Some(v) == [tag |-> "Some", val |-> v]
IsSome(o) == o.tag = "Some"
IsNone(o) == o.tag = "None"

(***************************************************************************)
(* Decimal. rust_decimal is an external crate; its arithmetic is modelled  *)
(* as exact: a Decimal is the fraction <<n, d>> in lowest terms, d > 0.    *)
(* Equality and hashing of Decimal compare values, as equality of the      *)
(* normalised pairs does.  Division by zero panics in rust_decimal; the    *)
(* callers test the divisor before they use DecDiv.                        *)
(***************************************************************************)
RECURSIVE Gcd(_, _)
Gcd(a, b) == IF b = 0 THEN a ELSE Gcd(b, a % b)
AbsInt(i) == IF i < 0 THEN -i ELSE i
Norm(n, d) ==
    LET g == Gcd(AbsInt(n), AbsInt(d))
        s == IF d < 0 THEN -1 ELSE 1
    IN  <<(s * n) \div g, (s * d) \div g>>
Dec(i) == <<i, 1>>
Frac(n, d) == Norm(n, d)
Zero == Dec(0)
DecAdd(a, b) == Norm(a[1] * b[2] + b[1] * a[2], a[2] * b[2])
DecNeg(a) == <<-a[1], a[2]>>
DecSub(a, b) == DecAdd(a, DecNeg(b))
DecMul(a, b) == Norm(a[1] * b[1], a[2] * b[2])
DecDiv(a, b) == Norm(a[1] * b[2], a[2] * b[1])
DecAbs(a) == <<AbsInt(a[1]), a[2]>>
DecLt(a, b) == a[1] * b[2] < b[1] * a[2]
DecIsZero(a) == a[1] = 0
\* Decimal::is_sign_negative / is_sign_positive: zero carries the positive sign.
IsSignNegative(a) == a[1] < 0
IsSignPositive(a) == a[1] >= 0

(***************************************************************************)
(* Helpers on finite maps (HashMap) and sequences.                         *)
(***************************************************************************)
EmptyMap == [k \in {} |-> 0]
MapGet(m, k, default) == IF k \in DOMAIN m THEN m[k] ELSE default
MapPut(m, k, v) == [j \in (DOMAIN m) \cup {k} |-> IF j = k THEN v ELSE m[j]]
\* *m.entry(k).or_default() += x
MapAdd(m, k, x) == MapPut(m, k, DecAdd(MapGet(m, k, Zero), x))

RECURSIVE SeqFilterIn(_, _)
\* the elements of sequence s that lie in set S, in the order of s
SeqFilterIn(s, S) ==
    IF s = <<>> THEN <<>>
    ELSE IF Head(s) \in S THEN <<Head(s)>> \o SeqFilterIn(Tail(s), S)
         ELSE SeqFilterIn(Tail(s), S)

Range(s) == {s[i] : i \in DOMAIN s}
\* all enumerations of the finite set S without repetition
Perms(S) == {p \in [1..Cardinality(S) -> S] : Range(p) = S}

(***************************************************************************)
(* The data model (src/src/ledger.rs, src/src/parse/parser.rs).            *)
(* A Source is <<file, directive, posting>>: the file, the position of the *)
(* directive in it and the position of the posting in the directive (0 for *)
(* the directive itself).                                                  *)
(***************************************************************************)
Amount(number, currency) == [number |-> number, currency |-> currency]
UnitCost(amount, date) == [amount |-> amount, date |-> date]
CostBasisUnit(amount) == [kind |-> "Unit", amount |-> amount]
CostBasisTotal(amount) == [kind |-> "Total", amount |-> amount]
CostLiteral(date, basis) == [date |-> date, basis |-> basis]
PriceUnit(amount) == [kind |-> "Unit", amount |-> amount]
PriceTotal(amount) == [kind |-> "Total", amount |-> amount]
PostingDraft(account, amount, cost, price) ==
    [account |-> account, amount |-> amount, cost |-> cost, price |-> price]
\* tags is the set of the strings of the Vec TxnDraft::tags
TxnDraft(date, flag, tags, postings, src) ==
    [date |-> date, flag |-> flag, tags |-> tags, postings |-> postings, src |-> src]
Posting(account, amount, cost, price, src) ==
    [account |-> account, amount |-> amount, cost |-> cost, price |-> price, src |-> src]
Transaction(date, flag, postings, src) ==
    [date |-> date, flag |-> flag, postings |-> postings, src |-> src]
Error(type, level, src) == [type |-> type, level |-> level, src |-> src]
PostingSrc(txn_src, j) == <<txn_src[1], txn_src[2], j>>

\* enum TxnFlag { Pending, Posted, Pad, Balance } and `flag as u8`
TxnFlags == {"Pending", "Posted", "Pad", "Balance"}
FlagAsU8(flag) ==
    CASE flag = "Pending" -> 0
      [] flag = "Posted" -> 1
      [] flag = "Pad" -> 2
      [] flag = "Balance" -> 3

\* Ord of Account (a string): the account names of the model in lexicographic order
AccountOrder == <<"A", "B", "E", "X">>
AccountRank(a) == CHOOSE i \in DOMAIN AccountOrder : AccountOrder[i] = a
AccountLess(a, b) == AccountRank(a) < AccountRank(b)
AccountSrc(kind, a, i) == <<kind, AccountRank(a), i>>

(***************************************************************************)
(* check_accounts: an account needs an open directive; a close before the  *)
(* open is dropped; notes and documents outside [open, close] are dropped. *)
(* The accounts are visited in the order of AccountOrder (the HashMap's    *)
(* order only permutes the errors).                                        *)
(***************************************************************************)
RECURSIVE FilterNoteDoc(_, _, _, _, _, _)
\* filter_note_doc!: [items |-> the kept dates, errors |-> the errors]
FilterNoteDoc(items, i, open_date, valid_close, kind, account) ==
    IF i > Len(items) THEN [items |-> <<>>, errors |-> <<>>]
    ELSE LET rest == FilterNoteDoc(items, i + 1, open_date, valid_close, kind, account)
             bad == \/ items[i] < open_date
                    \/ (IsSome(valid_close) /\ items[i] > valid_close.val)
         IN  IF bad
             THEN [items |-> rest.items,
                   errors |-> <<Error("Account", "Error", AccountSrc(kind, account, i))>>
                              \o rest.errors]
             ELSE [items |-> <<items[i]>> \o rest.items, errors |-> rest.errors]

UnknownAccountErrors(account, info_draft) ==
    [i \in 1..Len(info_draft.notes) |-> Error("Account", "Error", AccountSrc("note", account, i))]
    \o [i \in 1..Len(info_draft.docs) |-> Error("Account", "Error", AccountSrc("document", account, i))]
    \o (IF IsSome(info_draft.close)
        THEN <<Error("Account", "Error", AccountSrc("close", account, 0))>> ELSE <<>>)

CheckOneAccount(account, info_draft) ==
    IF IsSome(info_draft.open)
    THEN LET open_date == info_draft.open.val
             close_bad == IsSome(info_draft.close) /\ info_draft.close.val < open_date
             valid_close == IF close_bad THEN None ELSE info_draft.close
             notes == FilterNoteDoc(info_draft.notes, 1, open_date, valid_close, "note", account)
             docs == FilterNoteDoc(info_draft.docs, 1, open_date, valid_close, "document", account)
         IN  [info |-> Some([open |-> open_date, close |-> valid_close,
                             currencies |-> info_draft.currencies,
                             notes |-> notes.items, docs |-> docs.items]),
              errors |-> (IF close_bad
                          THEN <<Error("Account", "Error", AccountSrc("close", account, 0))>>
                          ELSE <<>>) \o notes.errors \o docs.errors]
    ELSE [info |-> None, errors |-> UnknownAccountErrors(account, info_draft)]

RECURSIVE CheckAccountsFrom(_, _)
CheckAccountsFrom(accounts, i) ==
    IF i > Len(AccountOrder) THEN [accounts |-> EmptyMap, errors |-> <<>>]
    ELSE LET a == AccountOrder[i]
             rest == CheckAccountsFrom(accounts, i + 1)
         IN  IF a \notin DOMAIN accounts THEN rest
             ELSE LET one == CheckOneAccount(a, accounts[a])
                  IN  [accounts |-> IF IsSome(one.info)
                                    THEN MapPut(rest.accounts, a, one.info.val)
                                    ELSE rest.accounts,
                       errors |-> one.errors \o rest.errors]

check_accounts(accounts) == CheckAccountsFrom(accounts, 1)

(***************************************************************************)
(* check_posting: the account is known, open at the date of the            *)
(* transaction, not closed before it, and allowed to hold the currency of  *)
(* the amount if the posting has one.                                      *)
(***************************************************************************)
\* check_posting without the test of the close date
check_posting_ignoring_close(posting, txn_date, accounts) ==
    IF posting.account \in DOMAIN accounts
    THEN LET info == accounts[posting.account]
         IN  /\ ~(txn_date < info.open)
             /\ (IsSome(posting.amount) =>
                    ~(/\ Cardinality(info.currencies) > 0
                      /\ posting.amount.val.currency \notin info.currencies))
    ELSE FALSE

check_posting(posting, txn_date, accounts) ==
    IF posting.account \in DOMAIN accounts
    THEN LET info == accounts[posting.account]
         IN  /\ ~(txn_date < info.open)
             /\ ~(IsSome(info.close) /\ txn_date > info.close.val)
             /\ (IsSome(posting.amount) =>
                    ~(/\ Cardinality(info.currencies) > 0
                      /\ posting.amount.val.currency \notin info.currencies))
    ELSE FALSE

(***************************************************************************)
(* Options and tolerances.  The names of the options are those of          *)
(* options.rs; parse_decimal and str::parse::<bool> are modelled on the    *)
(* strings the model uses.                                                 *)
(***************************************************************************)
OPTION_DEFAULT_TOLERANCE == "default_tolerance"
OPTION_BALANCE_AT_DAY_END == "balance_at_day_end"
TOLERANCE_KEY_DEFAULT == ";"

DecimalLiterals ==
    [s \in {"0", "1", "2", "-1", "0.5"} |->
        CASE s = "0" -> Dec(0)
          [] s = "1" -> Dec(1)
          [] s = "2" -> Dec(2)
          [] s = "-1" -> Dec(-1)
          [] s = "0.5" -> Frac(1, 2)]
\* utils::parse_decimal: Ok(number) or Err(Syntax error)
parse_decimal(num_str) ==
    IF num_str \in DOMAIN DecimalLiterals THEN Some(DecimalLiterals[num_str]) ELSE None
\* str::parse::<bool>().ok()
ParseBool(s) == IF s = "true" THEN Some(TRUE) ELSE IF s = "false" THEN Some(FALSE) ELSE None

\* Decimal::new(6, 3)
DefaultTolerance == Frac(6, 1000)

RECURSIVE CommodityTolerances(_, _)
\* the loop of extract_tolerance over the commodities, in the order of `order`
CommodityTolerances(commodities, order) ==
    IF order = <<>> THEN [tolerances |-> EmptyMap, errors |-> <<>>]
    ELSE LET c == Head(order)
             rest == CommodityTolerances(commodities, Tail(order))
         IN  IF c \in DOMAIN commodities /\ "tolerance" \in DOMAIN commodities[c].meta
             THEN LET num == parse_decimal(commodities[c].meta["tolerance"])
                  IN  IF IsSome(num)
                      THEN [tolerances |-> MapPut(rest.tolerances, c, DecAbs(num.val)),
                            errors |-> rest.errors]
                      ELSE [tolerances |-> rest.tolerances,
                            errors |-> <<Error("Syntax", "Error", <<"commodity", 0, 0>>)>>
                                       \o rest.errors]
             ELSE rest

Currencies == {"FOO", "USD"}
CurrencyOrder == <<"FOO", "USD">>

extract_tolerance(commodities, options) ==
    LET per == CommodityTolerances(commodities, CurrencyOrder)
    IN  IF OPTION_DEFAULT_TOLERANCE \in DOMAIN options
        THEN LET num == parse_decimal(options[OPTION_DEFAULT_TOLERANCE].val)
             IN  IF IsSome(num)
                 THEN [tolerances |-> MapPut(per.tolerances, TOLERANCE_KEY_DEFAULT, DecAbs(num.val)),
                       errors |-> per.errors]
                 ELSE [tolerances |-> per.tolerances,
                       errors |-> per.errors \o <<Error("Syntax", "Error", <<"option", 0, 0>>)>>]
        ELSE [tolerances |-> MapPut(per.tolerances, TOLERANCE_KEY_DEFAULT, DefaultTolerance),
              errors |-> per.errors]

\* tolerances.get(currency).unwrap_or(tolerances.get(TOLERANCE_KEY_DEFAULT).unwrap())
ToleranceOf(currency, tolerances) ==
    IF currency \in DOMAIN tolerances THEN tolerances[currency]
    ELSE tolerances[TOLERANCE_KEY_DEFAULT]

\* equal_within accepting a difference equal to the tolerance
equal_within_inclusive(lhs, rhs, currency, tolerances) ==
    IF lhs = rhs THEN TRUE
    ELSE ~DecLt(ToleranceOf(currency, tolerances), DecAbs(DecSub(lhs, rhs)))

equal_within(lhs, rhs, currency, tolerances) ==
    IF lhs = rhs THEN TRUE
    ELSE DecLt(DecAbs(DecSub(lhs, rhs)), ToleranceOf(currency, tolerances))

(***************************************************************************)
(* The balance sheet.  BalanceSheet = account -> currency -> lot -> number *)
(* is a function from the pairs <<account, currency>> that have an entry   *)
(* to the lot map of the pair; a lot is None or Some(UnitCost).            *)
(* The iteration order of a HashMap is not specified: `h` carries the      *)
(* order of one replay step, h.lots for the lots and h.curs for the        *)
(* currencies.                                                              *)
(***************************************************************************)
Lots(sheet, account, currency) ==
    IF <<account, currency>> \in DOMAIN sheet THEN Some(sheet[<<account, currency>>]) ELSE None
\* entry(account).or_default().entry(currency).or_default()
EnsureEntry(sheet, account, currency) ==
    IF <<account, currency>> \in DOMAIN sheet THEN sheet
    ELSE MapPut(sheet, <<account, currency>>, EmptyMap)
\* *sheet.entry(account)...entry(lot).or_default() += x
SheetAdd(sheet, account, currency, lot, x) ==
    LET s1 == EnsureEntry(sheet, account, currency)
    IN  MapPut(s1, <<account, currency>>, MapAdd(s1[<<account, currency>>], lot, x))
\* the lots Some(_) of a lot map, in the iteration order of the step
SomeLotsInOrder(lots, h) == SeqFilterIn(h.lots, {k \in DOMAIN lots : IsSome(k)})
LotKeys(sheet) == UNION {{k \in DOMAIN sheet[ac] : IsSome(k)} : ac \in DOMAIN sheet}
HashOrders(sheet) ==
    {[lots |-> l, curs |-> c] : l \in Perms(LotKeys(sheet)), c \in Perms(Currencies)}

RECURSIVE SumLots(_, _)
\* the sum of the numbers of the lots in the set `keys`
SumLots(lots, keys) ==
    IF keys = {} THEN Zero
    ELSE LET k == CHOOSE x \in keys : TRUE
         IN  DecAdd(lots[k], SumLots(lots, keys \ {k}))

\* UnitCost::matches
Matches(unit_cost, unit_cost_amount, date) ==
    /\ (IsSome(unit_cost_amount) => unit_cost_amount.val = unit_cost.amount)
    /\ (IsSome(date) => date.val = unit_cost.date)

\* CostBasis::to_unit_cost (the division panics on a zero number)
to_unit_cost(basis, p_number) ==
    IF basis.kind = "Total"
    THEN Amount(DecDiv(basis.amount.number, DecAbs(p_number)), basis.amount.currency)
    ELSE basis.amount
DivisionPanics(literal, p_number) == literal.kind = "Total" /\ DecIsZero(p_number)

\* PriceLiteral::into_unit_price: Unit(a) is a, Total(a) is a / |p_number|
into_unit_price(price, p_number) ==
    IF price.kind = "Total"
    THEN Amount(DecDiv(price.amount.number, DecAbs(p_number)), price.amount.currency)
    ELSE price.amount
\* posting.price.map(|p| p.into_unit_price(p_number))
MapPrice(price, p_number) ==
    IF IsSome(price) THEN Some(into_unit_price(price.val, p_number)) ELSE None
PricePanics(price, p_number) == IsSome(price) /\ DivisionPanics(price.val, p_number)

is_opening_new(p_number, running_balance, h) ==
    IF IsSome(running_balance) /\ SomeLotsInOrder(running_balance.val, h) # <<>>
    THEN LET number == running_balance.val[Head(SomeLotsInOrder(running_balance.val, h))]
         IN  ~(\/ (IsSignNegative(number) /\ IsSignPositive(p_number))
               \/ (IsSignPositive(number) /\ IsSignNegative(p_number)))
    ELSE TRUE

\* enum PostResult, with the maps the call has written and Panic for a panic
PostResult(tag, postings, error, balance_change, per_currency_change) ==
    [tag |-> tag, postings |-> postings, error |-> error,
     balance_change |-> balance_change, per_currency_change |-> per_currency_change]
NoError == Error("", "", <<"", 0, 0>>)

RECURSIVE ExpandAll(_, _, _, _, _, _)
\* the loop of close_position over the lots held, for a posting `account  n CUR {}`
ExpandAll(order, holding, account, currency, src, acc) ==
    IF order = <<>> THEN acc
    ELSE LET unit_cost == Head(order).val
             holding_number == holding[Head(order)]
         IN  ExpandAll(Tail(order), holding, account, currency, src,
                 [postings |-> Append(acc.postings,
                                  Posting(account, Amount(DecNeg(holding_number), currency),
                                          Some(unit_cost), None, src)),
                  balance_change |-> SheetAdd(acc.balance_change, account, currency,
                                              Some(unit_cost), DecNeg(holding_number)),
                  per_currency_change |->
                      MapAdd(acc.per_currency_change, unit_cost.amount.currency,
                             DecNeg(DecMul(unit_cost.amount.number, holding_number)))])

\* PostResult::Expanded(expanded_postings), from the outcome of ExpandAll
Expanded(r) ==
    PostResult("Expanded", r.postings, NoError, r.balance_change, r.per_currency_change)

\* the arm (None, None) closing every lot whatever the number of the posting
CloseAll_unchecked(posting, src, running_balance, h, bc, pcc) ==
    IF IsSome(running_balance)
    THEN Expanded(ExpandAll(SomeLotsInOrder(running_balance.val, h), running_balance.val,
                            posting.account, posting.amount.val.currency, src,
                            [postings |-> <<>>, balance_change |-> bc,
                             per_currency_change |-> pcc]))
    ELSE IF ~DecIsZero(posting.amount.val.number)
         THEN PostResult("Fail", <<>>, Error("NoMatch", "Error", src), bc, pcc)
         ELSE PostResult("None", <<>>, NoError, bc, pcc)

\* the arm (None, None) of close_position
CloseAll(posting, src, running_balance, h, bc, pcc) ==
    IF IsSome(running_balance)
    THEN IF DecIsZero(DecAdd(SumLots(running_balance.val,
                                     {k \in DOMAIN running_balance.val : IsSome(k)}),
                             posting.amount.val.number))
         THEN Expanded(ExpandAll(SomeLotsInOrder(running_balance.val, h), running_balance.val,
                                 posting.account, posting.amount.val.currency, src,
                                 [postings |-> <<>>, balance_change |-> bc,
                                  per_currency_change |-> pcc]))
         ELSE PostResult("Fail", <<>>, Error("NoMatch", "Error", src), bc, pcc)
    ELSE IF ~DecIsZero(posting.amount.val.number)
         THEN PostResult("Fail", <<>>, Error("NoMatch", "Error", src), bc, pcc)
         ELSE PostResult("None", <<>>, NoError, bc, pcc)

\* the reduction of the lot `unit_cost`, shared by the two other arms
Reduce(posting, src, unit_cost, holding_number, bc, pcc) ==
    LET p_amount == posting.amount.val
        p_number == p_amount.number
    IN  IF DecLt(DecAbs(holding_number), DecAbs(p_number))
        THEN PostResult("Fail", <<>>, Error("NoMatch", "Error", src), bc, pcc)
        ELSE IF PricePanics(posting.price, p_number)
        THEN PostResult("Panic", <<>>, NoError, bc, pcc)
        ELSE PostResult("Success",
                 <<Posting(posting.account, p_amount, Some(unit_cost),
                           MapPrice(posting.price, p_number), src)>>,
                 NoError,
                 SheetAdd(bc, posting.account, p_amount.currency, Some(unit_cost), p_number),
                 MapAdd(pcc, unit_cost.amount.currency,
                        DecMul(unit_cost.amount.number, p_number)))

\* close_position reducing one of the candidates when several lots match the literal
close_position_any_candidate(posting, src, running_balance, h, bc, pcc) ==
    LET cost_literal == posting.cost.val
        p_number == posting.amount.val.number
        unit_cost_amount ==
            IF IsSome(cost_literal.basis)
            THEN Some(to_unit_cost(cost_literal.basis.val, p_number))
            ELSE None
        candidates ==
            IF IsSome(running_balance)
            THEN {k \in DOMAIN running_balance.val :
                     IsSome(k) /\ Matches(k.val, unit_cost_amount, cost_literal.date)}
            ELSE {}
    IN  IF IsNone(cost_literal.basis) /\ IsNone(cost_literal.date)
        THEN CloseAll(posting, src, running_balance, h, bc, pcc)
        ELSE IF candidates # {}
        THEN LET k == CHOOSE x \in candidates : TRUE
             IN  Reduce(posting, src, k.val, running_balance.val[k], bc, pcc)
        ELSE PostResult("Fail", <<>>, Error("NoMatch", "Error", src), bc, pcc)

close_position(posting, src, running_balance, h, bc, pcc) ==
    LET cost_literal == posting.cost.val
        p_number == posting.amount.val.number
    IN  IF IsNone(cost_literal.basis) /\ IsNone(cost_literal.date)
        THEN CloseAll(posting, src, running_balance, h, bc, pcc)
        ELSE IF IsSome(cost_literal.basis) /\ DivisionPanics(cost_literal.basis.val, p_number)
        THEN PostResult("Panic", <<>>, NoError, bc, pcc)
        ELSE IF IsSome(cost_literal.basis) /\ IsSome(cost_literal.date)
        THEN LET unit_cost == UnitCost(to_unit_cost(cost_literal.basis.val, p_number),
                                       cost_literal.date.val)
                 holding_number ==
                     IF IsSome(running_balance)
                     THEN MapGet(running_balance.val, Some(unit_cost), Zero)
                     ELSE Zero
             IN  Reduce(posting, src, unit_cost, holding_number, bc, pcc)
        ELSE LET unit_cost_amount ==
                     IF IsSome(cost_literal.basis)
                     THEN Some(to_unit_cost(cost_literal.basis.val, p_number))
                     ELSE None
                 candidates ==
                     IF IsSome(running_balance)
                     THEN {k \in DOMAIN running_balance.val :
                              IsSome(k) /\ Matches(k.val, unit_cost_amount, cost_literal.date)}
                     ELSE {}
             IN  IF Cardinality(candidates) = 1
                 THEN LET k == CHOOSE x \in candidates : TRUE
                      IN  Reduce(posting, src, k.val, running_balance.val[k], bc, pcc)
                 ELSE PostResult("Fail", <<>>, Error("NoMatch", "Error", src), bc, pcc)

\* open_new_position adding the total cost as if it were a unit cost
open_new_position_total_as_unit(posting, src, txn_date, bc, pcc) ==
    LET cost_literal == posting.cost.val
        p_amount == posting.amount.val
        p_number == p_amount.number
        date == IF IsSome(cost_literal.date) THEN cost_literal.date.val ELSE txn_date
    IN  IF IsSome(cost_literal.basis)
        THEN LET cost_basis == cost_literal.basis.val
                 unit_cost ==
                     IF cost_basis.kind = "Total"
                     THEN UnitCost(Amount(DecDiv(cost_basis.amount.number, p_number),
                                          cost_basis.amount.currency), date)
                     ELSE UnitCost(cost_basis.amount, date)
             IN  PostResult("Success",
                     <<Posting(posting.account, p_amount, Some(unit_cost),
                               MapPrice(posting.price, p_number), src)>>,
                     NoError,
                     SheetAdd(bc, posting.account, p_amount.currency, Some(unit_cost), p_number),
                     MapAdd(pcc, cost_basis.amount.currency,
                            DecMul(cost_basis.amount.number, p_number)))
        ELSE PostResult("NeedInfer", <<>>, NoError, bc, pcc)

open_new_position(posting, src, txn_date, bc, pcc) ==
    LET cost_literal == posting.cost.val
        p_amount == posting.amount.val
        p_number == p_amount.number
        date == IF IsSome(cost_literal.date) THEN cost_literal.date.val ELSE txn_date
    IN  IF IsSome(cost_literal.basis)
        THEN LET cost_basis == cost_literal.basis.val
             IN  IF DivisionPanics(cost_basis, p_number) \/ PricePanics(posting.price, p_number)
                 THEN PostResult("Panic", <<>>, NoError, bc, pcc)
                 ELSE LET unit_cost ==
                              IF cost_basis.kind = "Total"
                              THEN UnitCost(Amount(DecDiv(cost_basis.amount.number, p_number),
                                                   cost_basis.amount.currency), date)
                              ELSE UnitCost(cost_basis.amount, date)
                          change ==
                              IF cost_basis.kind = "Total" THEN cost_basis.amount.number
                              ELSE DecMul(cost_basis.amount.number, p_number)
                      IN  PostResult("Success",
                              <<Posting(posting.account, p_amount, Some(unit_cost),
                                        MapPrice(posting.price, p_number), src)>>,
                              NoError,
                              SheetAdd(bc, posting.account, p_amount.currency,
                                       Some(unit_cost), p_number),
                              MapAdd(pcc, cost_basis.amount.currency, change))
        ELSE PostResult("NeedInfer", <<>>, NoError, bc, pcc)

\* the price-adjusted number and its currency, for a posting without cost
PricedChange(posting) ==
    LET p_amount == posting.amount.val
    IN  IF IsNone(posting.price) THEN <<p_amount.number, p_amount.currency>>
        ELSE IF posting.price.val.kind = "Total"
        THEN IF IsSignNegative(p_amount.number)
             THEN <<DecNeg(posting.price.val.amount.number), posting.price.val.amount.currency>>
             ELSE <<posting.price.val.amount.number, posting.price.val.amount.currency>>
        ELSE <<DecMul(p_amount.number, posting.price.val.amount.number),
               posting.price.val.amount.currency>>

posting_flow(posting, src, txn_date, running_balance, h, balance_change, per_currency_change) ==
    IF IsNone(posting.amount)
    THEN PostResult("NeedInfer", <<>>, NoError, balance_change, per_currency_change)
    ELSE LET p_amount == posting.amount.val
             lots == Lots(running_balance, posting.account, p_amount.currency)
             bc == EnsureEntry(balance_change, posting.account, p_amount.currency)
         IN  IF IsSome(posting.cost)
             THEN IF is_opening_new(p_amount.number, lots, h)
                  THEN open_new_position(posting, src, txn_date, bc, per_currency_change)
                  ELSE close_position(posting, src, lots, h, bc, per_currency_change)
             ELSE IF PricePanics(posting.price, p_amount.number)
             THEN PostResult("Panic", <<>>, NoError, bc, per_currency_change)
             ELSE PostResult("Success",
                      <<Posting(posting.account, p_amount, None,
                                MapPrice(posting.price, p_amount.number), src)>>,
                      NoError,
                      SheetAdd(bc, posting.account, p_amount.currency, None, p_amount.number),
                      MapAdd(per_currency_change, PricedChange(posting)[2],
                             PricedChange(posting)[1]))

\* the outcome of complete_posting and of check_complete_txn
TxnResult(tag, error, postings, balance_change) ==
    [tag |-> tag, error |-> error, postings |-> postings, balance_change |-> balance_change]

\* the arm (None, _) inferring the amount of the first unbalanced currency only
InferAmounts_first_only(not_balanced, account, src, valid_postings, balance_change) ==
    IF not_balanced = <<>> THEN TxnResult("Ok", NoError, valid_postings, balance_change)
    ELSE LET currency == Head(not_balanced)[1]
             number == Head(not_balanced)[2]
         IN  TxnResult("Ok", NoError,
                 Append(valid_postings,
                        Posting(account, Amount(DecNeg(number), currency), None, None, src)),
                 SheetAdd(balance_change, account, currency, None, DecNeg(number)))

RECURSIVE InferAmounts(_, _, _, _, _)
\* the arm (None, _) of complete_posting: one posting for every unbalanced currency
InferAmounts(not_balanced, account, src, valid_postings, balance_change) ==
    IF not_balanced = <<>> THEN TxnResult("Ok", NoError, valid_postings, balance_change)
    ELSE LET currency == Head(not_balanced)[1]
             number == Head(not_balanced)[2]
         IN  InferAmounts(Tail(not_balanced), account, src,
                 Append(valid_postings,
                        Posting(account, Amount(DecNeg(number), currency), None, None, src)),
                 SheetAdd(balance_change, account, currency, None, DecNeg(number)))

\* `incomplete` is None or Some([posting |-> the draft, src |-> its source])
complete_posting(incomplete, not_balanced, txn_date, txn_src, valid_postings, balance_change) ==
    IF IsSome(incomplete)
    THEN LET posting == incomplete.val.posting
             src == incomplete.val.src
         IN  IF IsNone(posting.amount)
             THEN InferAmounts(not_balanced, posting.account, src, valid_postings, balance_change)
             ELSE IF Len(not_balanced) = 1
             THEN LET currency == not_balanced[1][1]
                      number == not_balanced[1][2]
                      amount == posting.amount.val
                      cost_literal == posting.cost.val
                      cost_date == IF IsSome(cost_literal.date) THEN cost_literal.date.val
                                   ELSE txn_date
                  IN  IF DecIsZero(amount.number) \/ PricePanics(posting.price, amount.number)
                      THEN TxnResult("Panic", NoError, valid_postings, balance_change)
                      ELSE LET unit_cost ==
                                   UnitCost(Amount(DecDiv(DecNeg(number), amount.number), currency),
                                            cost_date)
                           IN  TxnResult("Ok", NoError,
                                   Append(valid_postings,
                                          Posting(posting.account, amount, Some(unit_cost),
                                                  MapPrice(posting.price, amount.number), src)),
                                   SheetAdd(balance_change, posting.account, amount.currency,
                                            Some(unit_cost), amount.number))
             ELSE TxnResult("Err", Error("Incomplete", "Error", src), valid_postings, balance_change)
    ELSE IF Len(not_balanced) > 0
         THEN TxnResult("Err", Error("NotBalanced", "Error", txn_src), valid_postings, balance_change)
         ELSE TxnResult("Ok", NoError, valid_postings, balance_change)

RECURSIVE SortByAccount(_)
\* valid_postings.sort_by(|p1, p2| p1.account.cmp(&p2.account)), a stable sort
SortByAccount(postings) ==
    IF postings = <<>> THEN <<>>
    ELSE LET n == Len(postings)
             sorted == SortByAccount(SubSeq(postings, 1, n - 1))
             x == postings[n]
             before == {i \in DOMAIN sorted : ~AccountLess(x.account, sorted[i].account)}
             k == Cardinality(before)
         IN  SubSeq(sorted, 1, k) \o <<x>> \o SubSeq(sorted, k + 1, Len(sorted))

\* tolerances.get(TOLERANCE_KEY_DEFAULT).unwrap() of equal_within panics
EqualWithinPanics(lhs, rhs, tolerances) ==
    lhs # rhs /\ TOLERANCE_KEY_DEFAULT \notin DOMAIN tolerances

RECURSIVE NotBalanced(_, _, _)
\* per_currency_change filtered by !equal_within(number, 0), in the order `order`
NotBalanced(per_currency_change, order, tolerances) ==
    IF order = <<>> THEN <<>>
    ELSE LET c == Head(order)
             rest == NotBalanced(per_currency_change, Tail(order), tolerances)
         IN  IF c \in DOMAIN per_currency_change
                /\ ~equal_within(per_currency_change[c], Zero, c, tolerances)
             THEN <<<<c, per_currency_change[c]>>>> \o rest
             ELSE rest

\* the match on the PostResult r of the posting `posting`
\* st = [tag, error, incomplete, postings, balance_change, per_currency_change]
PostingStep(st, r, posting, src) ==
    LET st1 == [st EXCEPT !.balance_change = r.balance_change,
                          !.per_currency_change = r.per_currency_change]
    IN  CASE r.tag = "Fail" -> [st1 EXCEPT !.tag = "Err", !.error = r.error]
          [] r.tag = "Panic" -> [st1 EXCEPT !.tag = "Panic"]
          [] r.tag = "NeedInfer" ->
               IF IsSome(st.incomplete)
               THEN [st1 EXCEPT !.tag = "Err", !.error = Error("Incomplete", "Error", src)]
               ELSE [st1 EXCEPT !.incomplete = Some([posting |-> posting, src |-> src])]
          [] OTHER -> [st1 EXCEPT !.postings = st.postings \o r.postings]

RECURSIVE PostingLoop(_, _, _, _, _)
\* the loop of check_complete_txn over the postings, from posting j on
PostingLoop(txn, j, running_balance, h, st) ==
    IF j > Len(txn.postings) \/ st.tag # "Ok" THEN st
    ELSE PostingLoop(txn, j + 1, running_balance, h,
             PostingStep(st,
                 posting_flow(txn.postings[j], PostingSrc(txn.src, j), txn.date,
                              running_balance, h, st.balance_change, st.per_currency_change),
                 txn.postings[j], PostingSrc(txn.src, j)))

\* the end of check_complete_txn, r the outcome of complete_posting
Completed(r) ==
    IF r.tag = "Ok"
    THEN TxnResult("Ok", NoError, SortByAccount(r.postings), r.balance_change)
    ELSE TxnResult(r.tag, r.error, <<>>, EmptyMap)

\* check_complete_txn after its loop, st the state the loop ended in
AfterPostingLoop(st, txn, tolerances, h) ==
    IF st.tag # "Ok" THEN TxnResult(st.tag, st.error, <<>>, EmptyMap)
    ELSE IF \E c \in DOMAIN st.per_currency_change :
                EqualWithinPanics(st.per_currency_change[c], Zero, tolerances)
    THEN TxnResult("Panic", NoError, <<>>, EmptyMap)
    ELSE Completed(complete_posting(st.incomplete,
                       NotBalanced(st.per_currency_change, h.curs, tolerances),
                       txn.date, txn.src, st.postings, st.balance_change))

check_complete_txn(txn, running_balance, tolerances, h) ==
    AfterPostingLoop(
        PostingLoop(txn, 1, running_balance, h,
            [tag |-> "Ok", error |-> NoError, incomplete |-> None, postings |-> <<>>,
             balance_change |-> EmptyMap, per_currency_change |-> EmptyMap]),
        txn, tolerances, h)

RECURSIVE MergeLots(_, _, _)
MergeLots(currency_bal, currency_change, keys) ==
    IF keys = {} THEN currency_bal
    ELSE LET cost == CHOOSE x \in keys : TRUE
         IN  MergeLots(MapAdd(currency_bal, cost, currency_change[cost]),
                       currency_change, keys \ {cost})

\* merge_balance storing the change of a lot instead of adding it
merge_balance_overwriting(running_balance, changes) ==
    [ac \in (DOMAIN running_balance) \cup (DOMAIN changes) |->
        IF ac \in DOMAIN changes
        THEN [k \in (DOMAIN MapGet(running_balance, ac, EmptyMap)) \cup (DOMAIN changes[ac]) |->
                 IF k \in DOMAIN changes[ac] THEN changes[ac][k] ELSE running_balance[ac][k]]
        ELSE running_balance[ac]]

merge_balance(running_balance, changes) ==
    [ac \in (DOMAIN running_balance) \cup (DOMAIN changes) |->
        IF ac \in DOMAIN changes
        THEN MergeLots(MapGet(running_balance, ac, EmptyMap), changes[ac], DOMAIN changes[ac])
        ELSE running_balance[ac]]

(***************************************************************************)
(* Balance assertions and pads.                                            *)
(***************************************************************************)
\* struct PadFromInfo; index is the position in valid_txns, counted from 0
PadFromInfo(from, currencies, index) ==
    [from |-> from, currencies |-> currencies, index |-> index]

HoldingTotal(running_balance, account, currency) ==
    IF <<account, currency>> \in DOMAIN running_balance
    THEN SumLots(running_balance[<<account, currency>>],
                 DOMAIN running_balance[<<account, currency>>])
    ELSE Zero

\* check_balance_posting without the tolerance: every difference is to be padded
check_balance_posting_exact(posting, src, running_balance, tolerances) ==
    IF IsSome(posting.cost) \/ IsSome(posting.price)
    THEN [tag |-> "Err", error |-> Error("Syntax", "Error", src), pad_number |-> Zero]
    ELSE IF IsSome(posting.amount)
    THEN [tag |-> "Ok", error |-> NoError,
          pad_number |-> DecSub(posting.amount.val.number,
                                HoldingTotal(running_balance, posting.account,
                                             posting.amount.val.currency))]
    ELSE [tag |-> "Err", error |-> Error("Incomplete", "Error", src), pad_number |-> Zero]

\* Ok((amount, pad_number)), Err(error), or a panic of equal_within
check_balance_posting(posting, src, running_balance, tolerances) ==
    IF IsSome(posting.cost) \/ IsSome(posting.price)
    THEN [tag |-> "Err", error |-> Error("Syntax", "Error", src), pad_number |-> Zero]
    ELSE IF IsSome(posting.amount)
    THEN LET p_amount == posting.amount.val
             holding_total == HoldingTotal(running_balance, posting.account, p_amount.currency)
         IN  IF EqualWithinPanics(holding_total, p_amount.number, tolerances)
             THEN [tag |-> "Panic", error |-> NoError, pad_number |-> Zero]
             ELSE IF equal_within(holding_total, p_amount.number, p_amount.currency, tolerances)
             THEN [tag |-> "Ok", error |-> NoError, pad_number |-> Zero]
             ELSE [tag |-> "Ok", error |-> NoError,
                   pad_number |-> DecSub(p_amount.number, holding_total)]
    ELSE [tag |-> "Err", error |-> Error("Incomplete", "Error", src), pad_number |-> Zero]

\* find_pad_from that answers Ok(None) for a currency already filled, as it does, but
\* pushes the two postings on the placeholder first
find_pad_from_pushing_again(dest_account, pad_number, currency, pad_from, valid_txns, valid_accounts, src) ==
    IF dest_account \in DOMAIN pad_from
    THEN LET info == pad_from[dest_account]
             from_account_currency_set == valid_accounts[info.from].currencies
             pushed_on ==
                 [valid_txns EXCEPT ![info.index + 1].postings =
                     @ \o <<Posting(dest_account, Amount(pad_number, currency), None, None, src),
                            Posting(info.from, Amount(DecNeg(pad_number), currency),
                                    None, None, src)>>]
         IN  IF /\ Cardinality(from_account_currency_set) > 0
                /\ currency \notin from_account_currency_set
             THEN [tag |-> "Err", error |-> Error("Account", "Error", src),
                   pad_from |-> pad_from, valid_txns |-> valid_txns]
             ELSE IF currency \notin info.currencies
             THEN [tag |-> "Some", from |-> info.from, error |-> NoError,
                   pad_from |-> [pad_from EXCEPT ![dest_account].currencies = @ \cup {currency}],
                   valid_txns |-> pushed_on]
             ELSE [tag |-> "None", error |-> NoError,
                   pad_from |-> pad_from, valid_txns |-> pushed_on]
    ELSE [tag |-> "None", error |-> NoError, pad_from |-> pad_from, valid_txns |-> valid_txns]

\* find_pad_from that does not record the currency it fills
find_pad_from_unrecorded(dest_account, pad_number, currency, pad_from, valid_txns, valid_accounts, src) ==
    IF dest_account \in DOMAIN pad_from
    THEN LET info == pad_from[dest_account]
             from_account_currency_set == valid_accounts[info.from].currencies
         IN  IF /\ Cardinality(from_account_currency_set) > 0
                /\ currency \notin from_account_currency_set
             THEN [tag |-> "Err", error |-> Error("Account", "Error", src),
                   pad_from |-> pad_from, valid_txns |-> valid_txns]
             ELSE [tag |-> "Some", from |-> info.from, error |-> NoError,
                   pad_from |-> pad_from,
                   valid_txns |->
                       [valid_txns EXCEPT ![info.index + 1].postings =
                           @ \o <<Posting(dest_account, Amount(pad_number, currency),
                                          None, None, src),
                                  Posting(info.from, Amount(DecNeg(pad_number), currency),
                                          None, None, src)>>]]
    ELSE [tag |-> "None", error |-> NoError, pad_from |-> pad_from, valid_txns |-> valid_txns]

\* Ok(Some(from)), Ok(None) or Err(error), with pad_from and valid_txns as written
find_pad_from(dest_account, pad_number, currency, pad_from, valid_txns, valid_accounts, src) ==
    IF dest_account \in DOMAIN pad_from
    THEN LET info == pad_from[dest_account]
             from_account_currency_set == valid_accounts[info.from].currencies
         IN  IF /\ Cardinality(from_account_currency_set) > 0
                /\ currency \notin from_account_currency_set
             THEN [tag |-> "Err", error |-> Error("Account", "Error", src),
                   pad_from |-> pad_from, valid_txns |-> valid_txns]
             ELSE IF currency \notin info.currencies
             THEN [tag |-> "Some", from |-> info.from, error |-> NoError,
                   pad_from |-> [pad_from EXCEPT ![dest_account].currencies = @ \cup {currency}],
                   valid_txns |->
                       [valid_txns EXCEPT ![info.index + 1].postings =
                           @ \o <<Posting(dest_account, Amount(pad_number, currency),
                                          None, None, src),
                                  Posting(info.from, Amount(DecNeg(pad_number), currency),
                                          None, None, src)>>]]
             ELSE [tag |-> "None", error |-> NoError,
                   pad_from |-> pad_from, valid_txns |-> valid_txns]
    ELSE [tag |-> "None", error |-> NoError, pad_from |-> pad_from, valid_txns |-> valid_txns]

\* the match on the outcome f of find_pad_from
\* st = [running_balance, pad_from, valid_txns, postings, errors, panic]
AfterFindPadFrom(st, posting, src, pad_number, f) ==
    LET st1 == [st EXCEPT !.pad_from = f.pad_from, !.valid_txns = f.valid_txns]
        currency == posting.amount.val.currency
    IN  IF f.tag = "Some"
        THEN [st1 EXCEPT
                 !.running_balance =
                     SheetAdd(SheetAdd(@, posting.account, currency, None, pad_number),
                              f.from, currency, None, DecNeg(pad_number)),
                 !.postings = Append(@, Posting(posting.account, posting.amount.val,
                                                None, None, src))]
        ELSE IF f.tag = "Err" THEN [st1 EXCEPT !.errors = Append(@, f.error)]
        ELSE [st1 EXCEPT !.errors = Append(@, Error("NotBalanced", "Error", src))]

\* the match on the outcome r of check_balance_posting
AfterCheckBalancePosting(st, posting, src, r, valid_accounts) ==
    IF r.tag = "Panic" THEN [st EXCEPT !.panic = TRUE]
    ELSE IF r.tag = "Err" THEN [st EXCEPT !.errors = Append(@, r.error)]
    ELSE IF DecIsZero(r.pad_number)
    THEN [st EXCEPT !.postings = Append(@, Posting(posting.account, posting.amount.val,
                                                   None, None, src))]
    ELSE AfterFindPadFrom(st, posting, src, r.pad_number,
             find_pad_from(posting.account, r.pad_number, posting.amount.val.currency,
                           st.pad_from, st.valid_txns, valid_accounts, src))

\* one iteration of the loop of check_balance, for the posting j of txn
CheckBalanceStep(txn, j, st, tolerances, valid_accounts) ==
    AfterCheckBalancePosting(st, txn.postings[j], PostingSrc(txn.src, j),
        check_balance_posting(txn.postings[j], PostingSrc(txn.src, j),
                              st.running_balance, tolerances),
        valid_accounts)

RECURSIVE CheckBalanceLoop(_, _, _, _, _)
CheckBalanceLoop(txn, j, st, tolerances, valid_accounts) ==
    IF j > Len(txn.postings) \/ st.panic THEN st
    ELSE CheckBalanceLoop(txn, j + 1,
                          CheckBalanceStep(txn, j, st, tolerances, valid_accounts),
                          tolerances, valid_accounts)

\* the outcome of check_balance, st the state its loop ended in
AfterBalanceLoop(txn, st) ==
    [valid_txn |-> Transaction(txn.date, txn.flag, st.postings, txn.src),
     errors |-> st.errors, running_balance |-> st.running_balance,
     pad_from |-> st.pad_from, valid_txns |-> st.valid_txns, panic |-> st.panic]

\* (valid_txn, errors), with running_balance, pad_from and valid_txns as written
check_balance(txn, running_balance, tolerances, pad_from, valid_txns, valid_accounts) ==
    AfterBalanceLoop(txn,
        CheckBalanceLoop(txn, 1,
            [running_balance |-> running_balance, pad_from |-> pad_from,
             valid_txns |-> valid_txns, postings |-> <<>>, errors |-> <<>>,
             panic |-> FALSE],
            tolerances, valid_accounts))

(***************************************************************************)
(* LedgerDraft::into_ledger: the accounts and the tolerances, the stable   *)
(* sort of the transactions, then the replay, one transaction at a time.   *)
(***************************************************************************)
option_balance_at_day_end(options) ==
    IF OPTION_BALANCE_AT_DAY_END \in DOMAIN options
    THEN LET b == ParseBool(options[OPTION_BALANCE_AT_DAY_END].val)
         IN  IF IsSome(b) THEN b.val ELSE FALSE
    ELSE FALSE

\* the sort key without the rotation that brings Balance to the start of the day
OrderKeyUnrotated(t, at_day_end) == <<t.date, FlagAsU8(t.flag)>>
\* the sort key of txns.sort_by_key: (t.date, t.flag) or (t.date, (t.flag as u8 + 1) % 4)
OrderKey(t, at_day_end) ==
    <<t.date, IF at_day_end THEN FlagAsU8(t.flag) ELSE (FlagAsU8(t.flag) + 1) % 4>>
KeyLess(k1, k2) == k1[1] < k2[1] \/ (k1[1] = k2[1] /\ k1[2] < k2[2])

RECURSIVE SortTxns(_, _)
\* Vec::sort_by_key, a stable sort
SortTxns(txns, at_day_end) ==
    IF txns = <<>> THEN <<>>
    ELSE LET n == Len(txns)
             sorted == SortTxns(SubSeq(txns, 1, n - 1), at_day_end)
             x == txns[n]
             before == {i \in DOMAIN sorted :
                           ~KeyLess(OrderKey(x, at_day_end), OrderKey(sorted[i], at_day_end))}
             k == Cardinality(before)
         IN  SubSeq(sorted, 1, k) \o <<x>> \o SubSeq(sorted, k + 1, Len(sorted))

RECURSIVE PostingErrorsUntilFirst(_, _, _)
\* the loop leaving at the first posting check_posting rejects
PostingErrorsUntilFirst(txn, j, valid_accounts) ==
    IF j > Len(txn.postings) THEN <<>>
    ELSE IF check_posting(txn.postings[j], txn.date, valid_accounts)
         THEN PostingErrorsUntilFirst(txn, j + 1, valid_accounts)
         ELSE <<Error("Account", "Error", PostingSrc(txn.src, j))>>

RECURSIVE PostingErrors(_, _, _)
\* the first loop of the replay: an Account error for every posting check_posting rejects
PostingErrors(txn, j, valid_accounts) ==
    IF j > Len(txn.postings) THEN <<>>
    ELSE (IF check_posting(txn.postings[j], txn.date, valid_accounts) THEN <<>>
          ELSE <<Error("Account", "Error", PostingSrc(txn.src, j))>>)
         \o PostingErrors(txn, j + 1, valid_accounts)

\* the arm TxnFlag::Balance up to check_balance: the pads out of the accounts of the
\* postings are forgotten
PadsToForget(txn, pad_to) ==
    UNION {pad_to[p.account] : p \in {q \in Range(txn.postings) : q.account \in DOMAIN pad_to}}
ForgetPadFrom(txn, pad_from, pad_to) ==
    [d \in (DOMAIN pad_from) \ PadsToForget(txn, pad_to) |-> pad_from[d]]
ForgetPadTo(txn, pad_to) ==
    [a \in (DOMAIN pad_to) \ {p.account : p \in Range(txn.postings)} |-> pad_to[a]]

\* the arm TxnFlag::Balance after check_balance, r its outcome
\* ck = [valid_txns, running_balance, pad_from, pad_to, errors, panic]
AfterCheckBalance(txn, ck, r) ==
    [valid_txns |-> IF Len(r.valid_txn.postings) > 0
                    THEN Append(r.valid_txns, r.valid_txn) ELSE r.valid_txns,
     running_balance |-> r.running_balance,
     pad_from |-> r.pad_from,
     pad_to |-> ForgetPadTo(txn, ck.pad_to),
     errors |-> ck.errors \o r.errors,
     panic |-> r.panic]

ReplayBalanceTxn(txn, ck, valid_accounts, tolerances) ==
    AfterCheckBalance(txn, ck,
        check_balance(txn, ck.running_balance, tolerances,
                      ForgetPadFrom(txn, ck.pad_from, ck.pad_to),
                      ck.valid_txns, valid_accounts))

\* the arm TxnFlag::Pending | TxnFlag::Posted after check_complete_txn, r its outcome
AfterCheckCompleteTxn(txn, ck, r) ==
    IF r.tag = "Ok"
    THEN [ck EXCEPT !.valid_txns =
                        Append(@, Transaction(txn.date, txn.flag, r.postings, txn.src)),
                    !.running_balance = merge_balance(@, r.balance_change)]
    ELSE IF r.tag = "Panic" THEN [ck EXCEPT !.panic = TRUE]
    ELSE [ck EXCEPT !.errors = Append(@, r.error)]

\* the changes of the postings written into the running balance as they are processed
\* instead of into the local balance_change: those of a rejected transaction stay
WrittenInPlace(ck, r, change) ==
    IF r.tag = "Err" THEN [ck EXCEPT !.running_balance = merge_balance(@, change)] ELSE ck
ReplayCompleteTxn_in_place(txn, ck, tolerances, h) ==
    WrittenInPlace(
        AfterCheckCompleteTxn(txn, ck, check_complete_txn(txn, ck.running_balance, tolerances, h)),
        check_complete_txn(txn, ck.running_balance, tolerances, h),
        PostingLoop(txn, 1, ck.running_balance, h,
            [tag |-> "Ok", error |-> NoError, incomplete |-> None, postings |-> <<>>,
             balance_change |-> EmptyMap, per_currency_change |-> EmptyMap]).balance_change)

ReplayCompleteTxn(txn, ck, tolerances, h) ==
    AfterCheckCompleteTxn(txn, ck, check_complete_txn(txn, ck.running_balance, tolerances, h))

\* the arm TxnFlag::Pad giving the placeholder the two postings of the directive
ReplayPadTxn_keeping_postings(txn, ck) ==
    IF Len(txn.postings) = 2
    THEN LET dest == txn.postings[1].account
             from == txn.postings[2].account
         IN  [ck EXCEPT
                 !.pad_from = MapPut(@, dest, PadFromInfo(from, {}, Len(ck.valid_txns))),
                 !.pad_to = MapPut(@, from, MapGet(@, from, {}) \cup {dest}),
                 !.valid_txns =
                     Append(@, Transaction(txn.date, txn.flag,
                         <<Posting(dest, Amount(Zero, "USD"), None, None, PostingSrc(txn.src, 1)),
                           Posting(from, Amount(Zero, "USD"), None, None, PostingSrc(txn.src, 2))>>,
                         txn.src))]
    ELSE [ck EXCEPT !.errors = Append(@, Error("Syntax", "Error", txn.src))]

ReplayPadTxn(txn, ck) ==
    IF Len(txn.postings) = 2
    THEN LET dest == txn.postings[1].account
             from == txn.postings[2].account
         IN  [ck EXCEPT
                 !.pad_from = MapPut(@, dest, PadFromInfo(from, {}, Len(ck.valid_txns))),
                 !.pad_to = MapPut(@, from, MapGet(@, from, {}) \cup {dest}),
                 !.valid_txns = Append(@, Transaction(txn.date, txn.flag, <<>>, txn.src))]
    ELSE [ck EXCEPT !.errors = Append(@, Error("Syntax", "Error", txn.src))]

\* one iteration of the loop `for txn in txns`
ReplayTxn(txn, ck, valid_accounts, tolerances, h) ==
    IF PostingErrors(txn, 1, valid_accounts) # <<>>
    THEN [ck EXCEPT !.errors = @ \o PostingErrors(txn, 1, valid_accounts)]
    ELSE CASE txn.flag = "Balance" -> ReplayBalanceTxn(txn, ck, valid_accounts, tolerances)
           [] txn.flag = "Pad" -> ReplayPadTxn(txn, ck)
           [] OTHER -> ReplayCompleteTxn(txn, ck, tolerances, h)

(***************************************************************************)
(* The inputs: account tables, options, commodities and transactions.      *)
(***************************************************************************)
AccountInfoDraft(open, close, currencies, notes) ==
    [open |-> open, close |-> close, currencies |-> currencies, notes |-> notes, docs |-> <<>>,
     meta |-> EmptyMap]

\* A and B are open from day 1 on, B holds USD only, X is never opened
AccountTable(e) ==
    [a \in {"A", "B", "E", "X"} |->
        CASE a = "A" -> AccountInfoDraft(Some(1), None, {}, <<1>>)
          [] a = "B" -> AccountInfoDraft(Some(1), None, {"USD"}, <<>>)
          [] a = "E" -> e
          [] a = "X" -> AccountInfoDraft(None, None, {}, <<1>>)]

\* the three tables, by the days E is open
AccountsEFrom2 == AccountTable(AccountInfoDraft(Some(2), None, {}, <<1>>))
AccountsEOn1 == AccountTable(AccountInfoDraft(Some(1), Some(1), {}, <<2>>))
AccountsEClosedEarly == AccountTable(AccountInfoDraft(Some(2), Some(1), {}, <<>>))

NoOptions == EmptyMap
\* options: key -> (value, source); commodities: currency -> (meta, source)
OptionValue(val, src) == [val |-> val, src |-> src]
CommodityValue(meta, src) == [meta |-> meta, src |-> src]
Option1(k, v) == [x \in {k} |-> OptionValue(v, <<"option", 0, 0>>)]
Option2(k1, v1, k2, v2) ==
    [x \in {k1, k2} |-> OptionValue(IF x = k1 THEN v1 ELSE v2, <<"option", 0, 0>>)]
NoCommodities == EmptyMap
CommodityTolerance(c, v) ==
    [x \in {c} |-> CommodityValue([y \in {"tolerance"} |-> v], <<"commodity", 0, 0>>)]

LedgerDraft(accounts, commodities, options, txns) ==
    [accounts |-> accounts, commodities |-> commodities, options |-> options, txns |-> txns]

\* the drafts without their transactions: the default tolerance 0.006, the tolerance 2
\* with a balance_at_day_end that is no bool, the tolerance 0 (1 for FOO) with
\* balance_at_day_end
Configs ==
    {LedgerDraft(AccountsEFrom2, NoCommodities, NoOptions, <<>>),
     LedgerDraft(AccountsEOn1, NoCommodities,
                 Option2(OPTION_DEFAULT_TOLERANCE, "2", OPTION_BALANCE_AT_DAY_END, "yes"),
                 <<>>),
     LedgerDraft(AccountsEClosedEarly, CommodityTolerance("FOO", "-1"),
                 Option2(OPTION_DEFAULT_TOLERANCE, "0", OPTION_BALANCE_AT_DAY_END, "true"),
                 <<>>)}

P(account, number, currency) ==
    PostingDraft(account, Some(Amount(Dec(number), currency)), None, None)
PNone(account) == PostingDraft(account, None, None, None)
PCost(account, number, currency, cost) ==
    PostingDraft(account, Some(Amount(Dec(number), currency)), Some(cost), None)
PPrice(account, number, currency, price) ==
    PostingDraft(account, Some(Amount(Dec(number), currency)), None, Some(price))
Shape(flag, postings) == [flag |-> flag, postings |-> postings]

\* plain transactions, pads and balance assertions
Shapes ==
    {Shape("Posted", <<P("A", 1, "USD"), P("B", -1, "USD")>>),
     Shape("Posted", <<P("A", 2, "USD"), P("B", -1, "USD")>>),
     Shape("Posted", <<P("A", 2, "USD"), PNone("B")>>),
     Shape("Posted", <<P("A", 1, "FOO"), PNone("B")>>),
     Shape("Pending", <<P("E", 1, "USD"), P("A", -1, "USD")>>),
     Shape("Pending", <<P("X", 1, "USD"), PNone("A")>>),
     Shape("Pad", <<PNone("A"), PNone("B")>>),
     Shape("Pad", <<PNone("B"), PNone("A")>>),
     Shape("Pad", <<PNone("A")>>),
     Shape("Balance", <<P("A", 2, "USD")>>),
     Shape("Balance", <<P("B", 0, "USD"), P("A", 1, "FOO")>>),
     Shape("Balance", <<PPrice("A", 0, "USD", PriceUnit(Amount(Dec(1), "FOO"))),
                        P("A", 1, "USD")>>)}

Dates == 1..MaxDate
\* the transactions of a file: txns[i] has the source <<file, i, 0>>
TxnLists(shapes, file) ==
    UNION {{[i \in 1..n |-> TxnDraft(d[i], s[i].flag, {}, s[i].postings, <<file, i, 0>>)] :
               s \in [1..n -> shapes], d \in [1..n -> Dates]} : n \in 0..MaxTxns}

VARIABLES
    pc,               \* "draft", "replay", "done" or "panic"
    draft,            \* the LedgerDraft handed to into_ledger
    valid_accounts,
    tolerances,
    txns,             \* the sorted transactions still to replay
    valid_txns,
    running_balance,
    pad_from,
    pad_to,
    errors,
    last,             \* the last replay step: its transaction and the states it went through
    fs,               \* the files: path -> directives; a path outside has no file
    num_threads,      \* LUMI_PARSER_THREADS
    tpc,              \* where each thread of Parser::parse is
    task,             \* the (path, origin) each thread parses
    pos,              \* the directive of the file each thread is at
    cur,              \* the (draft, errors) of the parse_helper each thread runs
    root,             \* the (draft, errors) of the parse_helper of Parser::parse
    queue,            \* sub_task_cond: the VecDeque of the Mutex
    active_count,     \* sub_task_cond: the usize of the Mutex
    handlers,         \* Parser.handlers of the root
    waiting,          \* the threads blocked in Condvar::wait
    sub_drafts,       \* the Vec each sub_worker returns
    results,          \* the results the root is merging
    joined,           \* the handlers the root has joined
    pushed,           \* history: the tasks pushed on the queue
    popped,           \* history: <<task, thread>> for every pop_front
    merged            \* history: the tasks whose result was merged into the root draft

checker_vars == <<pc, draft, valid_accounts, tolerances, txns, valid_txns, running_balance,
                  pad_from, pad_to, errors, last>>
parser_vars == <<fs, num_threads, tpc, task, pos, cur, root, queue, active_count, handlers,
                 waiting, sub_drafts, results, joined, pushed, popped, merged>>
vars == <<checker_vars, parser_vars>>

\* bound: the threads of Parser::parse, the root included
MaxThreads == 3
Threads == 0..(MaxThreads - 1)
NoTask == [path |-> "", src |-> <<"", 0, 0>>]

\* no Parser::parse is running
ParserIdle ==
    /\ fs = EmptyMap
    /\ num_threads = 1
    /\ tpc = [t \in Threads |-> "unborn"]
    /\ task = [t \in Threads |-> NoTask]
    /\ pos = [t \in Threads |-> 0]
    /\ cur = [t \in Threads |-> [errors |-> <<>>]]
    /\ root = [errors |-> <<>>]
    /\ queue = <<>>
    /\ active_count = 0
    /\ handlers = None
    /\ waiting = {}
    /\ sub_drafts = [t \in Threads |-> <<>>]
    /\ results = <<>>
    /\ joined = 0
    /\ pushed = <<>>
    /\ popped = <<>>
    /\ merged = <<>>

InitChecker ==
    /\ pc = "draft"
    /\ valid_accounts = EmptyMap
    /\ tolerances = EmptyMap
    /\ txns = <<>>
    /\ valid_txns = <<>>
    /\ running_balance = EmptyMap
    /\ pad_from = EmptyMap
    /\ pad_to = EmptyMap
    /\ errors = <<>>
    /\ last = [op |-> "none"]

Init ==
    /\ \E c \in Configs, l \in TxnLists(Shapes, "main") : draft = [c EXCEPT !.txns = l]
    /\ InitChecker
    /\ ParserIdle

\* the replay state as one record, and back
Ck == [valid_txns |-> valid_txns, running_balance |-> running_balance,
       pad_from |-> pad_from, pad_to |-> pad_to, errors |-> errors, panic |-> FALSE]
SetCk(ck) ==
    /\ valid_txns' = ck.valid_txns
    /\ running_balance' = ck.running_balance
    /\ pad_from' = ck.pad_from
    /\ pad_to' = ck.pad_to
    /\ errors' = ck.errors
    /\ pc' = IF ck.panic THEN "panic" ELSE "replay"
    /\ txns' = Tail(txns)
    /\ UNCHANGED <<draft, valid_accounts, tolerances>>
    /\ UNCHANGED parser_vars

\* into_ledger up to the loop
Begin ==
    /\ pc = "draft"
    /\ LET a == check_accounts(draft.accounts)
           t == extract_tolerance(draft.commodities, draft.options)
       IN  /\ valid_accounts' = a.accounts
           /\ tolerances' = t.tolerances
           /\ errors' = a.errors \o t.errors
    /\ txns' = SortTxns(draft.txns, option_balance_at_day_end(draft.options))
    /\ pc' = "replay"
    /\ UNCHANGED <<draft, valid_txns, running_balance, pad_from, pad_to, last>>
    /\ UNCHANGED parser_vars

Replaying == pc = "replay" /\ txns # <<>>
ValidHead == PostingErrors(Head(txns), 1, valid_accounts) = <<>>

\* a transaction with a posting check_posting rejects is skipped
ReplayInvalid ==
    /\ Replaying /\ ~ValidHead
    /\ SetCk([Ck EXCEPT !.errors = @ \o PostingErrors(Head(txns), 1, valid_accounts)])
    /\ last' = [op |-> "Invalid", txn |-> Head(txns), before |-> Ck]

\* the state of check_balance as the history keeps it
Snapshot(r) ==
    [running_balance |-> r.running_balance, pad_from |-> r.pad_from,
     valid_txns |-> r.valid_txns, postings |-> r.valid_txn.postings,
     errors |-> r.errors, panic |-> r.panic]

\* the states of check_balance before its loop and after each posting
BalanceTrace(txn, ck) ==
    [k \in 0..Len(txn.postings) |->
        Snapshot(check_balance([txn EXCEPT !.postings = SubSeq(@, 1, k)], ck.running_balance,
                               tolerances, ForgetPadFrom(txn, ck.pad_from, ck.pad_to),
                               ck.valid_txns, valid_accounts))]

ReplayBalance ==
    /\ Replaying /\ ValidHead /\ Head(txns).flag = "Balance"
    /\ SetCk(ReplayBalanceTxn(Head(txns), Ck, valid_accounts, tolerances))
    /\ last' = [op |-> "Balance", txn |-> Head(txns), before |-> Ck,
                trace |-> BalanceTrace(Head(txns), Ck)]

ReplayPad ==
    /\ Replaying /\ ValidHead /\ Head(txns).flag = "Pad"
    /\ SetCk(ReplayPadTxn(Head(txns), Ck))
    /\ last' = [op |-> "Pad", txn |-> Head(txns), before |-> Ck]

ReplayComplete ==
    /\ Replaying /\ ValidHead /\ Head(txns).flag \in {"Posted", "Pending"}
    /\ \E h \in HashOrders(running_balance) :
           SetCk(ReplayCompleteTxn(Head(txns), Ck, tolerances, h))
    /\ last' = [op |-> "Complete", txn |-> Head(txns), before |-> Ck]

\* the Ledger is returned
Finish ==
    /\ pc = "replay" /\ txns = <<>>
    /\ pc' = "done"
    /\ UNCHANGED <<draft, valid_accounts, tolerances, txns, valid_txns, running_balance,
                   pad_from, pad_to, errors, last>>
    /\ UNCHANGED parser_vars

Next == Begin \/ ReplayInvalid \/ ReplayBalance \/ ReplayPad \/ ReplayComplete \/ Finish

Spec == Init /\ [][Next]_vars

(***************************************************************************)
(* Positions held at cost: the drafts of SpecLots.                         *)
(***************************************************************************)
USD(n) == Amount(Dec(n), "USD")
Cost(basis, date) == CostLiteral(date, basis)
Unit(n) == Some(CostBasisUnit(USD(n)))
Total(n) == Some(CostBasisTotal(USD(n)))
PCostPrice(account, number, currency, cost, price) ==
    PostingDraft(account, Some(Amount(Dec(number), currency)), Some(cost), Some(price))

LotShapes ==
    {Shape("Posted", <<PCost("A", 2, "FOO", Cost(Unit(1), None)), P("B", -2, "USD")>>),
     Shape("Posted", <<PCost("A", 4, "FOO", Cost(Total(6), None)), PNone("B")>>),
     Shape("Posted", <<PCost("A", 1, "FOO", Cost(None, None)), P("B", -3, "USD")>>),
     Shape("Posted", <<PCost("A", -2, "FOO", Cost(Unit(1), None)), P("B", 2, "USD")>>),
     Shape("Posted", <<PCost("A", -5, "FOO", Cost(None, None)), P("B", 8, "USD")>>),
     Shape("Posted", <<PCost("A", -1, "FOO", Cost(Unit(1), Some(1))), P("B", 2, "USD")>>),
     Shape("Pending", <<PCostPrice("A", -1, "FOO", Cost(None, Some(1)), PriceUnit(USD(2))),
                        PNone("B")>>),
     Shape("Pending", <<PPrice("A", 2, "FOO", PriceUnit(USD(2))), P("B", -3, "USD")>>),
     Shape("Pending", <<PPrice("A", -3, "FOO", PriceTotal(USD(2))), P("B", 2, "USD")>>),
     Shape("Pending", <<P("X", 1, "FOO"), PNone("A")>>),
     Shape("Pad", <<PNone("A"), PNone("E")>>),
     Shape("Balance", <<P("A", 2, "FOO")>>)}

LotConfigs ==
    {LedgerDraft(AccountsEOn1, NoCommodities, NoOptions, <<>>),
     LedgerDraft(AccountsEOn1, CommodityTolerance("FOO", "0.5"),
                 Option1(OPTION_DEFAULT_TOLERANCE, "2"), <<>>),
     LedgerDraft(AccountsEOn1, NoCommodities, Option1(OPTION_DEFAULT_TOLERANCE, "0"), <<>>)}

InitLots ==
    /\ \E c \in LotConfigs, l \in TxnLists(LotShapes, "main") : draft = [c EXCEPT !.txns = l]
    /\ InitChecker
    /\ ParserIdle

SpecLots == InitLots /\ [][Next]_vars

(***************************************************************************)
(* Postings with the number 0 and an option default_tolerance that is no   *)
(* number: the drafts of SpecZero.                                         *)
(***************************************************************************)
ZeroShapes ==
    {Shape("Posted", <<PCost("A", 0, "FOO", Cost(Total(6), None)), P("B", -6, "USD")>>),
     Shape("Posted", <<PCost("A", 0, "FOO", Cost(None, None)), P("B", -3, "USD")>>),
     Shape("Pending", <<PPrice("A", 0, "FOO", PriceTotal(USD(2))), P("B", 0, "USD")>>),
     Shape("Posted", <<P("A", 1, "USD"), P("B", -1, "USD")>>),
     Shape("Posted", <<P("A", 2, "USD"), P("B", -1, "USD")>>),
     Shape("Pending", <<P("X", 1, "USD"), PNone("A")>>),
     Shape("Pad", <<PNone("A"), PNone("B")>>),
     Shape("Balance", <<P("A", 2, "USD")>>)}

ZeroConfigs ==
    {LedgerDraft(AccountsEOn1, NoCommodities, NoOptions, <<>>),
     LedgerDraft(AccountsEOn1, CommodityTolerance("USD", "1"),
                 Option1(OPTION_DEFAULT_TOLERANCE, "abc"), <<>>)}

InitZero ==
    /\ \E c \in ZeroConfigs, l \in TxnLists(ZeroShapes, "main") : draft = [c EXCEPT !.txns = l]
    /\ InitChecker
    /\ ParserIdle

SpecZero == InitZero /\ [][Next]_vars

(***************************************************************************)
(* Transactions on accounts that are unknown, not yet open, closed, or     *)
(* restricted to other currencies: the drafts of SpecAccounts.             *)
(***************************************************************************)
AccountShapes ==
    {Shape("Balance", <<P("B", 1, "FOO"), P("X", 1, "USD")>>),
     Shape("Balance", <<P("A", 2, "USD"), P("E", 0, "USD")>>),
     Shape("Balance", <<P("A", 2, "USD")>>),
     Shape("Pad", <<PNone("A"), PNone("B")>>),
     Shape("Pad", <<PNone("E"), PNone("A")>>),
     Shape("Posted", <<P("A", 1, "USD"), P("B", -1, "USD")>>),
     Shape("Posted", <<P("E", 1, "USD"), P("B", -1, "FOO")>>),
     Shape("Pending", <<P("X", 1, "USD"), PNone("A")>>)}

InitAccounts ==
    /\ \E c \in Configs, l \in TxnLists(AccountShapes, "main") : draft = [c EXCEPT !.txns = l]
    /\ InitChecker
    /\ ParserIdle

SpecAccounts == InitAccounts /\ [][Next]_vars

(***************************************************************************)
(* Transactions with postings without amount: the drafts of SpecInfer.     *)
(***************************************************************************)
InferShapes ==
    {Shape("Posted", <<P("A", 1, "USD"), P("A", 2, "FOO"), PNone("E")>>),
     Shape("Posted", <<P("A", 1, "USD"), P("B", -1, "USD"), PNone("A")>>),
     Shape("Posted", <<P("A", 2, "USD"), P("B", -1, "USD"), PNone("A")>>),
     Shape("Posted", <<P("A", 1, "USD"), PNone("B"), PNone("A")>>),
     Shape("Pending", <<PPrice("A", 2, "FOO", PriceUnit(Amount(Dec(2), "USD"))), PNone("B")>>),
     Shape("Pending", <<PNone("A"), P("B", -1, "USD")>>),
     Shape("Pending", <<P("X", 1, "USD"), PNone("A")>>),
     Shape("Pad", <<PNone("A"), PNone("B")>>),
     Shape("Balance", <<P("A", 2, "USD")>>)}

InitInfer ==
    /\ \E c \in Configs, l \in TxnLists(InferShapes, "main") : draft = [c EXCEPT !.txns = l]
    /\ InitChecker
    /\ ParserIdle

SpecInfer == InitInfer /\ [][Next]_vars

(***************************************************************************)
(* Positions sold short, lots closed to zero, two postings that close one  *)
(* lot, and total costs of negative numbers: the drafts of SpecShort.      *)
(***************************************************************************)
ShortShapes ==
    {Shape("Posted", <<PCost("A", -2, "FOO", Cost(Unit(1), None)),
                       PCost("A", -2, "FOO", Cost(Unit(2), None)), PNone("B")>>),
     Shape("Posted", <<PCost("A", 2, "FOO", Cost(Unit(1), None)), PNone("B")>>),
     Shape("Posted", <<PCost("A", 1, "FOO", Cost(Unit(2), None)), PNone("B")>>),
     Shape("Posted", <<PCost("A", -2, "FOO", Cost(Unit(1), None)),
                       PCost("A", -1, "FOO", Cost(Unit(1), None)), PNone("B")>>),
     Shape("Posted", <<PCost("A", -2, "FOO", Cost(Total(6), None)), PNone("B")>>),
     Shape("Posted", <<PCost("A", 2, "FOO", Cost(Total(6), None)), PNone("B")>>),
     Shape("Pending", <<PCost("A", -2, "FOO", Cost(None, None)), PNone("B")>>),
     Shape("Pending", <<PCost("A", 4, "FOO", Cost(None, None)), P("B", -6, "USD")>>),
     Shape("Pending", <<P("X", 1, "FOO"), PNone("A")>>),
     Shape("Pad", <<PNone("A"), PNone("B")>>),
     Shape("Balance", <<P("A", 0, "FOO")>>)}

InitShort ==
    /\ \E l \in TxnLists(ShortShapes, "main") :
           draft = LedgerDraft(AccountsEOn1, NoCommodities, NoOptions, l)
    /\ InitChecker
    /\ ParserIdle

SpecShort == InitShort /\ [][Next]_vars

(***************************************************************************)
(* The ledgers with a destination padded from two sources: E takes         *)
(* postings on day 1 only.                                                 *)
(***************************************************************************)
PadShapes ==
    {Shape("Pad", <<PNone("A"), PNone("B")>>),
     Shape("Pad", <<PNone("A"), PNone("E")>>),
     Shape("Pad", <<PNone("A")>>),
     Shape("Balance", <<P("A", 0, "USD")>>),
     Shape("Balance", <<P("A", 2, "USD")>>),
     Shape("Balance", <<P("B", 0, "USD")>>),
     Shape("Balance", <<P("E", 0, "USD")>>),
     Shape("Posted", <<P("A", 1, "USD"), P("B", -1, "USD")>>),
     Shape("Pending", <<P("X", 1, "USD"), PNone("A")>>)}

InitPads ==
    /\ \E l \in TxnLists(PadShapes, "main") :
           draft = LedgerDraft(AccountsEOn1, NoCommodities, NoOptions, l)
    /\ InitChecker
    /\ ParserIdle

SpecPads == InitPads /\ [][Next]_vars

(***************************************************************************)
(* The claims.                                                             *)
(***************************************************************************)
\* the weight of a posting of the Ledger, <<number, currency>>: at cost if it has a
\* cost, else at its price if it has one, else its own amount
Weight(p) ==
    IF IsSome(p.cost)
    THEN <<DecMul(p.amount.number, p.cost.val.amount.number), p.cost.val.amount.currency>>
    ELSE IF IsSome(p.price)
    THEN <<DecMul(p.amount.number, p.price.val.number), p.price.val.currency>>
    ELSE <<p.amount.number, p.amount.currency>>

RECURSIVE WeightSum(_, _)
WeightSum(postings, c) ==
    IF postings = <<>> THEN Zero
    ELSE IF Weight(Head(postings))[2] = c
    THEN DecAdd(Weight(Head(postings))[1], WeightSum(Tail(postings), c))
    ELSE WeightSum(Tail(postings), c)

CompleteTxns == {t \in Range(valid_txns) : t.flag \in {"Posted", "Pending"}}

\* C1 as stated: in the Ledger returned, the weights of every Posted or Pending
\* transaction sum, in every currency, to a number that differs from zero by strictly
\* less than the tolerance of the currency
C1_StrictlyWithinTolerance ==
    pc = "done" =>
        \A t \in CompleteTxns : \A c \in Currencies :
            DecLt(DecAbs(WeightSum(t.postings, c)), ToleranceOf(c, tolerances))

\* C1, amended: in the Ledger returned, the weights of every Posted or Pending
\* transaction sum, in every currency, to zero or to a number that differs from zero by
\* strictly less than the tolerance of the currency
C1_ZeroOrWithinTolerance ==
    pc = "done" =>
        \A t \in CompleteTxns : \A c \in Currencies :
            \/ DecIsZero(WeightSum(t.postings, c))
            \/ DecLt(DecAbs(WeightSum(t.postings, c)), ToleranceOf(c, tolerances))

\* the draft of a transaction of the Ledger
DraftOf(t) == draft.txns[t.src[2]]

\* a Ledger with a transaction whose cost was inferred, one whose amount was inferred,
\* and one that closes two lots at once and is off balance within the tolerance
C1_Witness ==
    /\ pc = "done"
    /\ \E t \in CompleteTxns :
           /\ Len(t.postings) = Len(DraftOf(t).postings)
           /\ \E p \in Range(DraftOf(t).postings) : IsSome(p.cost) /\ IsNone(p.cost.val.basis)
    /\ \E t \in CompleteTxns : \E p \in Range(DraftOf(t).postings) : IsNone(p.amount)
    /\ \E t \in CompleteTxns : \E i, j \in DOMAIN t.postings :
           /\ i # j /\ t.postings[i].src = t.postings[j].src
           /\ IsSome(t.postings[i].cost) /\ IsSome(t.postings[j].cost)
           /\ ~DecIsZero(WeightSum(t.postings, "USD"))

RECURSIVE Flatten(_)
\* the postings of a sequence of transactions, one after the other
Flatten(ts) == IF ts = <<>> THEN <<>> ELSE Head(ts).postings \o Flatten(Tail(ts))

RECURSIVE NumberSum(_, _, _, _)
\* the sum of the numbers of the postings on account a in currency c with cost k
NumberSum(postings, a, c, k) ==
    IF postings = <<>> THEN Zero
    ELSE LET p == Head(postings)
             rest == NumberSum(Tail(postings), a, c, k)
         IN  IF p.account = a /\ p.amount.currency = c /\ p.cost = k
             THEN DecAdd(p.amount.number, rest) ELSE rest

NonBalancePostings == Flatten(SelectSeq(valid_txns, LAMBDA t : t.flag # "Balance"))
\* the number a balance sheet holds for an account, a currency and a lot, 0 when absent
HeldIn(sheet, a, c, k) ==
    IF <<a, c>> \in DOMAIN sheet THEN MapGet(sheet[<<a, c>>], k, Zero) ELSE Zero
Held(a, c, k) == HeldIn(running_balance, a, c, k)
AllLots == {None} \cup LotKeys(running_balance) \cup {p.cost : p \in Range(NonBalancePostings)}

\* C2: in the Ledger returned, the number the balance sheet holds for an account, a
\* currency and a lot (0 when absent) is the sum of the numbers of the postings on
\* that account, currency and lot in the transactions other than Balance, the postings
\* appended to pad placeholders included
C2_BalanceSheetIsSumOfPostings ==
    pc = "done" =>
        \A a \in Range(AccountOrder), c \in Currencies, k \in AllLots :
            Held(a, c, k) = NumberSum(NonBalancePostings, a, c, k)

\* a Ledger with a realized pad on an account that holds a lot at cost
C2_Witness ==
    /\ pc = "done"
    /\ \E t \in Range(valid_txns) :
           /\ t.flag = "Pad" /\ t.postings # <<>>
           /\ \E p \in Range(NonBalancePostings) :
                  /\ IsSome(p.cost) /\ p.account = t.postings[1].account
                  /\ ~DecIsZero(Held(p.account, p.amount.currency, p.cost))
                  /\ ~DecIsZero(Held(p.account, p.amount.currency, None))

\* C3: the account of every posting of every transaction of the Ledger returned is an
\* account of the Ledger, opened on or before the day of the transaction and, if its
\* close was kept, closed on or after that day
C3_PostingAccountsAreOpen ==
    pc = "done" =>
        \A t \in Range(valid_txns) : \A p \in Range(t.postings) :
            /\ p.account \in DOMAIN valid_accounts
            /\ valid_accounts[p.account].open <= t.date
            /\ (IsSome(valid_accounts[p.account].close) =>
                    valid_accounts[p.account].close.val >= t.date)

\* a Ledger with a realized pad and a posting on an account whose close was kept
C3_Witness ==
    /\ pc = "done"
    /\ \E t \in Range(valid_txns) : t.flag = "Pad" /\ t.postings # <<>>
    /\ \E t \in Range(valid_txns) : \E p \in Range(t.postings) :
           IsSome(valid_accounts[p.account].close)

\* C4 as stated: every posting of the Ledger returned on an account with a non-empty
\* set of allowed currencies is in a currency of the set
C4_PostingCurrenciesAllowed ==
    pc = "done" =>
        \A t \in Range(valid_txns) : \A p \in Range(t.postings) :
            (p.account \in DOMAIN valid_accounts
             /\ valid_accounts[p.account].currencies # {})
                => p.amount.currency \in valid_accounts[p.account].currencies

(***************************************************************************)
(* The postings of the Balance transaction replayed last: the posting j,   *)
(* the state of check_balance before it and after it.                      *)
(***************************************************************************)
BalancePostings == IF last.op = "Balance" THEN DOMAIN last.txn.postings ELSE {}
Pre(j) == last.trace[j - 1]
Post(j) == last.trace[j]
Asserted(j) == last.txn.postings[j]
AssertsAmount(j) == IsSome(Asserted(j).amount)
Plain(j) == IsNone(Asserted(j).cost) /\ IsNone(Asserted(j).price)
AssertedNumber(j) == Asserted(j).amount.val.number
AssertedCurrency(j) == Asserted(j).amount.val.currency
AssertedSrc(j) == PostingSrc(last.txn.src, j)
HeldBefore(j) == HoldingTotal(Pre(j).running_balance, Asserted(j).account, AssertedCurrency(j))
HeldAfter(j) == HoldingTotal(Post(j).running_balance, Asserted(j).account, AssertedCurrency(j))
Gap(j) == DecSub(AssertedNumber(j), HeldBefore(j))
\* e = h, or |e - h| strictly less than the tolerance of the currency
WithinTolerance(j) ==
    \/ AssertedNumber(j) = HeldBefore(j)
    \/ DecLt(DecAbs(Gap(j)), ToleranceOf(AssertedCurrency(j), tolerances))
Kept(j) ==
    Post(j).postings = Append(Pre(j).postings,
                              Posting(Asserted(j).account, Asserted(j).amount.val,
                                      None, None, AssertedSrc(j)))
Dropped(j) == Post(j).postings = Pre(j).postings
SheetUntouched(j) ==
    /\ Post(j).running_balance = Pre(j).running_balance
    /\ Post(j).valid_txns = Pre(j).valid_txns
    /\ Post(j).pad_from = Pre(j).pad_from
NoChange(j) == SheetUntouched(j) /\ Post(j).errors = Pre(j).errors
ErrorAdded(j) ==
    /\ Len(Post(j).errors) = Len(Pre(j).errors) + 1
    /\ SubSeq(Post(j).errors, 1, Len(Pre(j).errors)) = Pre(j).errors
    /\ Post(j).errors[Len(Post(j).errors)].level = "Error"
    /\ Post(j).errors[Len(Post(j).errors)].src = AssertedSrc(j)
AddedErrorType(j) == Post(j).errors[Len(Post(j).errors)].type
PadPending(j) == Asserted(j).account \in DOMAIN Pre(j).pad_from
PadInfo(j) == Pre(j).pad_from[Asserted(j).account]
Filled(j) == AssertedCurrency(j) \in PadInfo(j).currencies
SourceAllows(j) ==
    \/ valid_accounts[PadInfo(j).from].currencies = {}
    \/ AssertedCurrency(j) \in valid_accounts[PadInfo(j).from].currencies
\* the two postings of a realized pad
PadPostings(j) ==
    <<Posting(Asserted(j).account, Amount(Gap(j), AssertedCurrency(j)),
              None, None, AssertedSrc(j)),
      Posting(PadInfo(j).from, Amount(DecNeg(Gap(j)), AssertedCurrency(j)),
              None, None, AssertedSrc(j))>>
PadAppended(j) ==
    Post(j).valid_txns =
        [Pre(j).valid_txns EXCEPT ![PadInfo(j).index + 1].postings = @ \o PadPostings(j)]
Realized(j) == PadPending(j) /\ PadAppended(j) /\ HeldAfter(j) = AssertedNumber(j)
DroppedWithError(j) ==
    /\ Dropped(j) /\ SheetUntouched(j) /\ ErrorAdded(j)
    /\ (~PadPending(j) \/ Filled(j)) => AddedErrorType(j) = "NotBalanced"
\* the outcome of a posting that asserts an amount, by the cases of the claim
Outcome(j) ==
    IF WithinTolerance(j) THEN Kept(j) /\ NoChange(j)
    ELSE (Realized(j) /\ Kept(j)) \/ DroppedWithError(j)

\* C5 as stated: a Balance posting that asserts e is kept without any change when the
\* holding is within the tolerance of e; else a pad is realized for e - h and the
\* posting is kept, or the posting is dropped with an error; it is never kept while the
\* holding differs from e by the tolerance or more
C5_BalancePostingOutcome ==
    \A j \in BalancePostings :
        AssertsAmount(j) =>
            /\ Outcome(j)
            /\ Kept(j) => DecLt(DecAbs(DecSub(AssertedNumber(j), HeldAfter(j))),
                                ToleranceOf(AssertedCurrency(j), tolerances))

\* C5, amended: the outcome above is the one of a Balance posting written without cost
\* and without price, and such a posting is never kept while the holding differs from e
\* by the tolerance or more unless the holding equals e; a Balance posting written with
\* a cost or a price is dropped with a Syntax error and nothing else changes
C5_PlainBalancePostingOutcome ==
    \A j \in BalancePostings :
        AssertsAmount(j) =>
            IF Plain(j)
            THEN /\ Outcome(j)
                 /\ Kept(j) =>
                        \/ HeldAfter(j) = AssertedNumber(j)
                        \/ DecLt(DecAbs(DecSub(AssertedNumber(j), HeldAfter(j))),
                                 ToleranceOf(AssertedCurrency(j), tolerances))
            ELSE /\ Dropped(j) /\ SheetUntouched(j) /\ ErrorAdded(j)
                 /\ AddedErrorType(j) = "Syntax"

\* a Balance transaction was replayed whose first posting, with a price, was dropped
\* and whose second posting realized a pad
C5_Witness ==
    /\ last.op = "Balance" /\ Len(last.txn.postings) = 2
    /\ ~Plain(1) /\ Dropped(1)
    /\ Plain(2) /\ ~WithinTolerance(2) /\ Realized(2) /\ Kept(2)

\* the pad directive on the account of the posting j is pending, the holding is not
\* within the tolerance of e, the pad has not filled the currency and its source may
\* hold the currency
PadDue(j) ==
    /\ AssertsAmount(j) /\ PadPending(j)
    /\ ~WithinTolerance(j) /\ ~Filled(j) /\ SourceAllows(j)
\* the transaction at pad_from[D].index is the one the directive `pad D S` created
PlaceholderOfPad(j) ==
    /\ PadInfo(j).index + 1 \in DOMAIN Pre(j).valid_txns
    /\ Pre(j).valid_txns[PadInfo(j).index + 1].flag = "Pad"
    /\ DraftOf(Pre(j).valid_txns[PadInfo(j).index + 1]).flag = "Pad"
    /\ DraftOf(Pre(j).valid_txns[PadInfo(j).index + 1]).postings[1].account
           = Asserted(j).account
    /\ DraftOf(Pre(j).valid_txns[PadInfo(j).index + 1]).postings[2].account
           = PadInfo(j).from
\* +(e-h) on D and -(e-h) on S are appended to the placeholder and to the lots None,
\* and the currency is marked filled
PadEffect(j) ==
    /\ PlaceholderOfPad(j)
    /\ PadAppended(j)
    /\ HeldIn(Post(j).running_balance, Asserted(j).account, AssertedCurrency(j), None)
           = DecAdd(HeldIn(Pre(j).running_balance, Asserted(j).account,
                           AssertedCurrency(j), None), Gap(j))
    /\ HeldIn(Post(j).running_balance, PadInfo(j).from, AssertedCurrency(j), None)
           = DecSub(HeldIn(Pre(j).running_balance, PadInfo(j).from,
                           AssertedCurrency(j), None), Gap(j))
    /\ Post(j).pad_from =
           [Pre(j).pad_from EXCEPT ![Asserted(j).account].currencies =
                                       @ \cup {AssertedCurrency(j)}]

\* C6 as stated: when `pad D S` is pending and a later Balance posting on D asserts e
\* in c while the holding h is not within the tolerance of e, c is not yet filled and
\* S may hold c, then +(e-h) on D and -(e-h) on S, without cost and price, are appended
\* to the transaction the pad directive created, the lots None of D and S move by
\* e-h and c is marked filled
C6_PadRealized == \A j \in BalancePostings : PadDue(j) => PadEffect(j)

\* C6, amended: the same for a Balance posting written without cost and without price
C6_PadRealizedByPlainPosting ==
    \A j \in BalancePostings : (PadDue(j) /\ Plain(j)) => PadEffect(j)

\* a pad was realized for a posting of a Balance transaction, on an account that held
\* the currency before, while a transaction was appended after the placeholder
C6_Witness ==
    \E j \in BalancePostings :
        /\ PadDue(j) /\ Plain(j) /\ PadEffect(j)
        /\ ~DecIsZero(HeldBefore(j))
        /\ PadInfo(j).index + 1 < Len(Pre(j).valid_txns)

\* the place of a flag in the order of the day
C7_Order(at_day_end) ==
    IF at_day_end THEN <<"Pending", "Posted", "Pad", "Balance">>
    ELSE <<"Balance", "Pending", "Posted", "Pad">>
C7_Rank(flag) ==
    CHOOSE i \in 1..4 : C7_Order(option_balance_at_day_end(draft.options))[i] = flag
C7_Before(t1, t2) ==
    \/ t1.date < t2.date
    \/ t1.date = t2.date /\ C7_Rank(t1.flag) < C7_Rank(t2.flag)
    \/ t1.date = t2.date /\ t1.flag = t2.flag /\ t1.src[2] < t2.src[2]

\* C7: the transactions of the Ledger are sorted by day and, within a day, by the order
\* of the flags the option balance_at_day_end selects; transactions of the same day and
\* flag are in the order of the draft
C7_LedgerSorted ==
    pc # "draft" =>
        \A i, j \in DOMAIN valid_txns : i < j => C7_Before(valid_txns[i], valid_txns[j])

\* a Ledger out of a draft that was not sorted, with a realized pad and two
\* transactions of the same day and flag
C7_Witness ==
    /\ pc = "done"
    /\ \E t \in Range(valid_txns) : t.flag = "Pad" /\ t.postings # <<>>
    /\ \E i, j \in DOMAIN valid_txns :
           /\ i < j /\ valid_txns[i].src[2] > valid_txns[j].src[2]
    /\ \E i, j \in DOMAIN valid_txns :
           /\ i < j /\ valid_txns[i].date = valid_txns[j].date
           /\ valid_txns[i].flag = valid_txns[j].flag

(***************************************************************************)
(* Parser::parse (src/src/parse/parser.rs).  A file is a sequence of       *)
(* directives; a path names its file (the join with the directory of the   *)
(* including file is left out).  A task of the include queue is the pair   *)
(* (path, origin): the origin is the source of the include directive.      *)
(***************************************************************************)
Include(path) == [kind |-> "include", path |-> path]
OptionDirective(key, val) == [kind |-> "option", key |-> key, val |-> val]
OpenDirective(date, account, currencies) ==
    [kind |-> "open", date |-> date, account |-> account, currencies |-> currencies]
TxnDirective(date, flag, postings) ==
    [kind |-> "txn", date |-> date, flag |-> flag, postings |-> postings]
PushTag(tag) == [kind |-> "pushtag", tag |-> tag]
PopTag(tag) == [kind |-> "poptag", tag |-> tag]
CommodityDirective(currency, meta) == [kind |-> "commodity", currency |-> currency, meta |-> meta]
Task(path, src) == [path |-> path, src |-> src]
RootTask == Task("main", <<"main", 0, 0>>)

\* LedgerDraft::default() and AccountInfoDraft::default()
DefaultDraft == LedgerDraft(EmptyMap, EmptyMap, EmptyMap, <<>>)
DefaultAccountInfoDraft == AccountInfoDraft(None, None, {}, <<>>)

\* add_option storing the later definition of a key
add_option_overwriting(d, key, val, src) ==
    IF key \in DOMAIN d.options
    THEN [draft |-> [d EXCEPT !.options = MapPut(@, key, OptionValue(val, src))],
          errors |-> <<Error("Duplicate", "Warning", src)>>]
    ELSE [draft |-> [d EXCEPT !.options = MapPut(@, key, OptionValue(val, src))],
          errors |-> <<>>]

\* Result<(), Error> of add_option, with the draft as written
add_option(d, key, val, src) ==
    IF key \in DOMAIN d.options
    THEN [draft |-> d, errors |-> <<Error("Duplicate", "Warning", src)>>]
    ELSE [draft |-> [d EXCEPT !.options = MapPut(@, key, OptionValue(val, src))],
          errors |-> <<>>]

add_commodity(d, commodity, meta, src) ==
    IF commodity \in DOMAIN d.commodities
    THEN [draft |-> d, errors |-> <<Error("Duplicate", "Warning", src)>>]
    ELSE [draft |-> [d EXCEPT !.commodities = MapPut(@, commodity, CommodityValue(meta, src))],
          errors |-> <<>>]

\* the error list of AccountInfoDraft::merge
AccountMergeErrors(self, another, name) ==
    (IF IsSome(another.open) /\ IsSome(self.open)
     THEN <<Error("Duplicate", "Error", <<"open", AccountRank(name), 0>>)>> ELSE <<>>)
    \o (IF IsSome(another.close) /\ IsSome(self.close)
        THEN <<Error("Duplicate", "Error", <<"close", AccountRank(name), 0>>)>> ELSE <<>>)

\* HashMap::extend: the entries of `other` replace those of the same key
MapExtend(m, other) ==
    [k \in (DOMAIN m) \cup (DOMAIN other) |-> IF k \in DOMAIN other THEN other[k] ELSE m[k]]

\* AccountInfoDraft::merge extending the notes and docs before it looks at the errors
AccountInfoDraft_merge_extending_first(self, another, name) ==
    IF AccountMergeErrors(self, another, name) = <<>>
    THEN [info |-> [open |-> IF IsSome(another.open) THEN another.open ELSE self.open,
                    currencies |-> IF IsSome(another.open) THEN another.currencies
                                   ELSE self.currencies,
                    close |-> IF IsSome(another.close) THEN another.close ELSE self.close,
                    meta |-> MapExtend(self.meta, another.meta),
                    notes |-> self.notes \o another.notes,
                    docs |-> self.docs \o another.docs],
          errors |-> <<>>]
    ELSE [info |-> [self EXCEPT !.notes = @ \o another.notes, !.docs = @ \o another.docs],
          errors |-> AccountMergeErrors(self, another, name)]

\* AccountInfoDraft::merge: [info |-> self as written, errors |-> the errors]
AccountInfoDraft_merge(self, another, name) ==
    IF AccountMergeErrors(self, another, name) = <<>>
    THEN [info |-> [open |-> IF IsSome(another.open) THEN another.open ELSE self.open,
                    currencies |-> IF IsSome(another.open) THEN another.currencies
                                   ELSE self.currencies,
                    close |-> IF IsSome(another.close) THEN another.close ELSE self.close,
                    meta |-> MapExtend(self.meta, another.meta),
                    notes |-> self.notes \o another.notes,
                    docs |-> self.docs \o another.docs],
          errors |-> <<>>]
    ELSE [info |-> self, errors |-> AccountMergeErrors(self, another, name)]

\* one round of a loop of LedgerDraft::merge; acc = [draft, errors], r the outcome of
\* the round
Merged(acc, r) == [draft |-> r.draft, errors |-> acc.errors \o r.errors]
MergeAccount(d, name, info) ==
    IF name \in DOMAIN d.accounts
    THEN [draft |-> [d EXCEPT !.accounts[name] =
                                  AccountInfoDraft_merge(@, info, name).info],
          errors |-> AccountInfoDraft_merge(d.accounts[name], info, name).errors]
    ELSE [draft |-> [d EXCEPT !.accounts = MapPut(@, name, info)], errors |-> <<>>]

RECURSIVE MergeOptions(_, _, _)
\* `for (key, (val, src)) in options`, in the order `order` of the HashMap
MergeOptions(acc, options, order) ==
    IF order = <<>> THEN acc
    ELSE MergeOptions(Merged(acc, add_option(acc.draft, Head(order), options[Head(order)].val,
                                             options[Head(order)].src)),
                      options, Tail(order))

RECURSIVE MergeCommodities(_, _, _)
MergeCommodities(acc, commodities, order) ==
    IF order = <<>> THEN acc
    ELSE MergeCommodities(Merged(acc, add_commodity(acc.draft, Head(order),
                                                    commodities[Head(order)].meta,
                                                    commodities[Head(order)].src)),
                          commodities, Tail(order))

RECURSIVE MergeAccounts(_, _, _)
MergeAccounts(acc, accounts, order) ==
    IF order = <<>> THEN acc
    ELSE MergeAccounts(Merged(acc, MergeAccount(acc.draft, Head(order),
                                                accounts[Head(order)])),
                       accounts, Tail(order))

\* the orders in which the loops of merge may visit the HashMaps of `another`
MergeOrders(another) ==
    {[options |-> o, commodities |-> c, accounts |-> a] :
        o \in Perms(DOMAIN another.options), c \in Perms(DOMAIN another.commodities),
        a \in Perms(DOMAIN another.accounts)}

\* LedgerDraft::merge without the transactions of `another`
LedgerDraft_merge_without_txns(self, another, order) ==
    MergeAccounts(
        MergeCommodities(
            MergeOptions([draft |-> self, errors |-> <<>>],
                         another.options, order.options),
            another.commodities, order.commodities),
        another.accounts, order.accounts)

\* LedgerDraft::merge: [draft |-> self as written, errors |-> the Vec<Error> returned]
LedgerDraft_merge(self, another, order) ==
    MergeAccounts(
        MergeCommodities(
            MergeOptions([draft |-> [self EXCEPT !.txns = @ \o another.txns],
                          errors |-> <<>>],
                         another.options, order.options),
            another.commodities, order.commodities),
        another.accounts, order.accounts)

\* parse_open: the entry of the account, or the default, with open and currencies set
parse_open(d, dir) ==
    [d EXCEPT !.accounts =
        MapPut(@, dir.account,
               [MapGet(d.accounts, dir.account, DefaultAccountInfoDraft)
                    EXCEPT !.open = Some(dir.date), !.currencies = dir.currencies,
                           !.meta = EmptyMap])]

\* the state of a Parser and its parse_directives: the draft, the errors and the tagset
ParserState(d, errs, tagset) == [draft |-> d, errors |-> errs, tagset |-> tagset]
NewParser == ParserState(DefaultDraft, <<>>, {})
\* Err(error) returned to parse_directives, which pushes it
Failed(st, error) == [st EXCEPT !.errors = Append(@, error)]

parse_push_tag(st, tag, src) ==
    IF tag \notin st.tagset THEN [st EXCEPT !.tagset = @ \cup {tag}]
    ELSE Failed(st, Error("Duplicate", "Info", src))

parse_pop_tag(st, tag, src) ==
    IF tag \in st.tagset THEN [st EXCEPT !.tagset = @ \ {tag}]
    ELSE Failed(st, Error("NoMatch", "Info", src))

parse_option(st, dir, src) ==
    [st EXCEPT !.draft = add_option(st.draft, dir.key, dir.val, src).draft,
               !.errors = @ \o add_option(st.draft, dir.key, dir.val, src).errors]

parse_commodity(st, dir, src) ==
    [st EXCEPT !.draft = add_commodity(st.draft, dir.currency, dir.meta, src).draft,
               !.errors = @ \o add_commodity(st.draft, dir.currency, dir.meta, src).errors]

\* parse_txn: a transaction that is no Balance gets the tags of the tagset
parse_txn(st, dir, src) ==
    [st EXCEPT !.draft.txns =
        Append(@, TxnDraft(dir.date, dir.flag,
                           IF dir.flag # "Balance" THEN st.tagset ELSE {},
                           dir.postings, src))]

\* the match of parse_directives on the first token of a directive other than include;
\* the directive is the i-th of the file
parse_directive(st, dir, file, i) ==
    CASE dir.kind = "option" -> parse_option(st, dir, <<file, i, 0>>)
      [] dir.kind = "commodity" -> parse_commodity(st, dir, <<file, i, 0>>)
      [] dir.kind = "open" -> [st EXCEPT !.draft = parse_open(@, dir)]
      [] dir.kind = "txn" -> parse_txn(st, dir, <<file, i, 0>>)
      [] dir.kind = "pushtag" -> parse_push_tag(st, dir.tag, <<file, i, 0>>)
      [] dir.kind = "poptag" -> parse_pop_tag(st, dir.tag, <<file, i, 0>>)

\* the directives whose first token is Option, Include, Date, PushTag or Commodity
ResyncKinds == {"option", "include", "txn", "open", "pushtag", "commodity"}

RECURSIVE Recover(_, _)
\* the loop of parse_directives after an Err: the tokens are consumed up to the next
\* Option, Include, Date, PushTag or Commodity; j is the directive the lexer is at
Recover(directives, j) ==
    IF j > Len(directives) \/ directives[j].kind \in ResyncKinds THEN j
    ELSE Recover(directives, j + 1)

\* where the lexer is after the round of parse_directives that took st to st1 on the
\* i-th directive
NextDirective(directives, i, st, st1) ==
    IF Len(st1.errors) > Len(st.errors) THEN Recover(directives, i + 1) ELSE i + 1

\* the result of a failed read with the span of the first line of the file
IoFailureAtFileStart(t) ==
    [draft |-> DefaultDraft, errors |-> <<Error("Io", "Error", <<t.path, 1, 0>>)>>]

\* the result parse_helper returns when fs::read_to_string fails
IoFailure(t) == [draft |-> DefaultDraft, errors |-> <<Error("Io", "Error", t.src)>>]

\* the test of sub_worker without the count of the tasks being parsed
sub_worker_check_ignoring_count(q, count) ==
    IF Len(q) = 0 /\ count >= 0 THEN "wait"
    ELSE IF Len(q) > 0 THEN "pop"
    ELSE "return"

\* the test of sub_worker under the lock: wait, pop a task, or return
sub_worker_check(q, count) ==
    IF Len(q) = 0 /\ count > 0 THEN "wait"
    ELSE IF Len(q) > 0 THEN "pop"
    ELSE "return"

(***************************************************************************)
(* The inputs of Parser::parse.                                            *)
(***************************************************************************)
Balanced1 == <<P("A", 1, "USD"), P("B", -1, "USD")>>
OffBy1 == <<P("A", 2, "USD"), P("B", -1, "USD")>>
Inferred == <<P("A", 2, "USD"), PNone("B")>>

\* main includes x and y, x includes z, y includes w, and there is no file w; x and y
\* set default_tolerance, to 2 and to 0
NestedFiles ==
    [f \in {"main", "x", "y", "z"} |->
        CASE f = "main" -> <<OpenDirective(1, "A", {}), OpenDirective(1, "B", {"USD"}),
                             Include("x"), Include("y")>>
          [] f = "x" -> <<OptionDirective(OPTION_DEFAULT_TOLERANCE, "2"), Include("z"),
                          TxnDirective(1, "Posted", Balanced1)>>
          [] f = "y" -> <<OptionDirective(OPTION_DEFAULT_TOLERANCE, "0"),
                          TxnDirective(1, "Posted", OffBy1), Include("w")>>
          [] f = "z" -> <<TxnDirective(1, "Posted", Inferred)>>]

\* a file without include
SingleFile ==
    [f \in {"main"} |-> <<OpenDirective(1, "A", {}), OpenDirective(1, "B", {}),
                          TxnDirective(1, "Posted", Balanced1)>>]

\* no file at all: the root file cannot be read
NoFiles == EmptyMap

\* options and commodities defined twice in main, again in x, and in both x and y
DuplicateFiles ==
    [f \in {"main", "x", "y"} |->
        CASE f = "main" -> <<OptionDirective("title", "1"), OptionDirective("title", "2"),
                             CommodityDirective("USD", EmptyMap), Include("x"), Include("y"),
                             CommodityDirective("USD", [k \in {"tolerance"} |-> "1"])>>
          [] f = "x" -> <<OptionDirective("title", "3"),
                          OptionDirective(OPTION_DEFAULT_TOLERANCE, "2"),
                          CommodityDirective("FOO", EmptyMap)>>
          [] f = "y" -> <<OptionDirective(OPTION_DEFAULT_TOLERANCE, "0"),
                          CommodityDirective("FOO", [k \in {"tolerance"} |-> "1"]),
                          CommodityDirective("USD", EmptyMap)>>]

FileSystems == {NestedFiles, SingleFile, NoFiles, DuplicateFiles}

InitParse ==
    /\ fs \in FileSystems
    /\ num_threads \in 1..MaxThreads
    /\ tpc = [t \in Threads |-> IF t = 0 THEN "read" ELSE "unborn"]
    /\ task = [t \in Threads |-> IF t = 0 THEN RootTask ELSE NoTask]
    /\ pos = [t \in Threads |-> 0]
    /\ cur = [t \in Threads |-> NewParser]
    /\ root = [draft |-> DefaultDraft, errors |-> <<>>]
    /\ queue = <<>>
    /\ active_count = 0
    /\ handlers = None
    /\ waiting = {}
    /\ sub_drafts = [t \in Threads |-> <<>>]
    /\ results = <<>>
    /\ joined = 0
    /\ pushed = <<>>
    /\ popped = <<>>
    /\ merged = <<>>
    /\ draft = DefaultDraft
    /\ InitChecker

(***************************************************************************)
(* The steps of the threads.  A critical section of the Mutex is one step; *)
(* the notify_one that follows it is another.                              *)
(***************************************************************************)
File(t) == fs[task[t].path]
AtDirective(t) == tpc[t] = "parse" /\ pos[t] <= Len(File(t))
AtInclude(t) == AtDirective(t) /\ File(t)[pos[t]].kind = "include"
AtEnd(t) == tpc[t] = "parse" /\ pos[t] > Len(File(t))
IncludeTask(t) == Task(File(t)[pos[t]].path, <<task[t].path, pos[t], 0>>)
\* the Parser of the thread has a sub_task_cond
HasSubTaskCond(t) == task[t] # RootTask \/ IsSome(handlers)

\* Condvar::notify_one by thread t, which goes on at `next`: one of the threads that
\* wait, if there is any, is woken and will take the lock
NotifyOne(t, next) ==
    IF waiting = {}
    THEN tpc' = [tpc EXCEPT ![t] = next] /\ waiting' = waiting
    ELSE \E w \in waiting :
             /\ tpc' = [tpc EXCEPT ![t] = next, ![w] = "lock"]
             /\ waiting' = waiting \ {w}

\* parse_helper: fs::read_to_string succeeds
ReadFile(t) ==
    /\ tpc[t] = "read" /\ task[t].path \in DOMAIN fs
    /\ tpc' = [tpc EXCEPT ![t] = "parse"]
    /\ pos' = [pos EXCEPT ![t] = 1]
    /\ cur' = [cur EXCEPT ![t] = NewParser]
    /\ UNCHANGED <<fs, num_threads, task, root, queue, active_count, handlers, waiting,
                   sub_drafts, results, joined, pushed, popped, merged>>
    /\ UNCHANGED checker_vars

\* parse_helper: fs::read_to_string fails
ReadFails(t) ==
    /\ tpc[t] = "read" /\ task[t].path \notin DOMAIN fs
    /\ IF task[t] = RootTask
       THEN /\ root' = IoFailure(task[t])
            /\ tpc' = [tpc EXCEPT ![t] = "returned"]
            /\ UNCHANGED sub_drafts
       ELSE /\ sub_drafts' = [sub_drafts EXCEPT ![t] =
                                 Append(@, [task |-> task[t], draft |-> DefaultDraft,
                                            errors |-> IoFailure(task[t]).errors])]
            /\ tpc' = [tpc EXCEPT ![t] = "dec"]
            /\ UNCHANGED root
    /\ UNCHANGED <<fs, num_threads, task, pos, cur, queue, active_count, handlers, waiting,
                   results, joined, pushed, popped, merged>>
    /\ UNCHANGED checker_vars

\* parse_directives: a directive other than include
ParseLocal(t) ==
    /\ AtDirective(t) /\ ~AtInclude(t)
    /\ cur' = [cur EXCEPT ![t] = parse_directive(@, File(t)[pos[t]], task[t].path, pos[t])]
    /\ pos' = [pos EXCEPT ![t] =
                  NextDirective(File(t), pos[t], cur[t],
                                parse_directive(cur[t], File(t)[pos[t]], task[t].path, pos[t]))]
    /\ UNCHANGED <<fs, num_threads, tpc, task, root, queue, active_count, handlers,
                   waiting, sub_drafts, results, joined, pushed, popped, merged>>
    /\ UNCHANGED checker_vars

\* parse_include without a sub_task_cond: the queue is created with the task, and the
\* workers 1..num_threads-1 are spawned
IncludeSpawn ==
    /\ AtInclude(0) /\ ~HasSubTaskCond(0)
    /\ queue' = <<IncludeTask(0)>>
    /\ active_count' = 0
    /\ handlers' = Some([i \in 1..(num_threads - 1) |-> i])
    /\ tpc' = [t \in Threads |-> IF t \in 1..(num_threads - 1) THEN "lock" ELSE tpc[t]]
    /\ pos' = [pos EXCEPT ![0] = @ + 1]
    /\ pushed' = Append(pushed, IncludeTask(0))
    /\ UNCHANGED <<fs, num_threads, task, cur, root, waiting, sub_drafts, results, joined,
                   popped, merged>>
    /\ UNCHANGED checker_vars

\* parse_include with a sub_task_cond: push_back under the lock
IncludePush(t) ==
    /\ AtInclude(t) /\ HasSubTaskCond(t)
    /\ queue' = Append(queue, IncludeTask(t))
    /\ pushed' = Append(pushed, IncludeTask(t))
    /\ tpc' = [tpc EXCEPT ![t] = "notify_push"]
    /\ UNCHANGED <<fs, num_threads, task, pos, cur, root, active_count, handlers, waiting,
                   sub_drafts, results, joined, popped, merged>>
    /\ UNCHANGED checker_vars

\* parse_include: notify_one after the push
NotifyPush(t) ==
    /\ tpc[t] = "notify_push"
    /\ NotifyOne(t, "parse")
    /\ pos' = [pos EXCEPT ![t] = @ + 1]
    /\ UNCHANGED <<fs, num_threads, task, cur, root, queue, active_count, handlers,
                   sub_drafts, results, joined, pushed, popped, merged>>
    /\ UNCHANGED checker_vars

\* parse_helper of a task returns: sub_worker pushes the result on sub_drafts
ParseEndSub(t) ==
    /\ AtEnd(t) /\ task[t] # RootTask
    /\ sub_drafts' = [sub_drafts EXCEPT ![t] =
                         Append(@, [task |-> task[t], draft |-> cur[t].draft,
                                    errors |-> cur[t].errors])]
    /\ tpc' = [tpc EXCEPT ![t] = "dec"]
    /\ UNCHANGED <<fs, num_threads, task, pos, cur, root, queue, active_count, handlers,
                   waiting, results, joined, pushed, popped, merged>>
    /\ UNCHANGED checker_vars

\* parse_helper of the root after parse_directives: with handlers the root runs
\* sub_worker(0), without it returns
ParseEndRoot ==
    /\ AtEnd(0) /\ task[0] = RootTask
    /\ root' = [draft |-> cur[0].draft, errors |-> cur[0].errors]
    /\ tpc' = [tpc EXCEPT ![0] = IF IsSome(handlers) THEN "lock" ELSE "returned"]
    /\ UNCHANGED <<fs, num_threads, task, pos, cur, queue, active_count, handlers, waiting,
                   sub_drafts, results, joined, pushed, popped, merged>>
    /\ UNCHANGED checker_vars

\* sub_worker: the queue is empty and a task is being parsed: Condvar::wait
SubWorkerWait(t) ==
    /\ tpc[t] = "lock" /\ sub_worker_check(queue, active_count) = "wait"
    /\ waiting' = waiting \cup {t}
    /\ tpc' = [tpc EXCEPT ![t] = "wait"]
    /\ UNCHANGED <<fs, num_threads, task, pos, cur, root, queue, active_count, handlers,
                   sub_drafts, results, joined, pushed, popped, merged>>
    /\ UNCHANGED checker_vars

\* sub_worker popping the first task without counting it
SubWorkerPop_uncounted(t) ==
    /\ tpc[t] = "lock" /\ sub_worker_check(queue, active_count) = "pop"
    /\ task' = [task EXCEPT ![t] = Head(queue)]
    /\ queue' = Tail(queue)
    /\ popped' = Append(popped, <<Head(queue), t>>)
    /\ tpc' = [tpc EXCEPT ![t] = "read"]
    /\ UNCHANGED <<fs, num_threads, pos, cur, root, active_count, handlers, waiting,
                   sub_drafts, results, joined, pushed, merged>>
    /\ UNCHANGED checker_vars

\* sub_worker: the count goes up and the first task is popped
SubWorkerPop(t) ==
    /\ tpc[t] = "lock" /\ sub_worker_check(queue, active_count) = "pop"
    /\ active_count' = active_count + 1
    /\ task' = [task EXCEPT ![t] = Head(queue)]
    /\ queue' = Tail(queue)
    /\ popped' = Append(popped, <<Head(queue), t>>)
    /\ tpc' = [tpc EXCEPT ![t] = "read"]
    /\ UNCHANGED <<fs, num_threads, pos, cur, root, handlers, waiting, sub_drafts, results,
                   joined, pushed, merged>>
    /\ UNCHANGED checker_vars

\* sub_worker: nothing is queued and nothing is being parsed: notify_one and return;
\* the root goes on to merge its own results
SubWorkerReturn(t) ==
    /\ tpc[t] = "lock" /\ sub_worker_check(queue, active_count) = "return"
    /\ NotifyOne(t, IF t = 0 THEN "merge" ELSE "returned")
    /\ results' = IF t = 0 THEN sub_drafts[0] ELSE results
    /\ UNCHANGED <<fs, num_threads, task, pos, cur, root, queue, active_count, handlers,
                   sub_drafts, joined, pushed, popped, merged>>
    /\ UNCHANGED checker_vars

\* sub_worker after parse_helper: the count goes down under the lock
Decrement(t) ==
    /\ tpc[t] = "dec"
    /\ active_count' = active_count - 1
    /\ tpc' = [tpc EXCEPT ![t] = "notify_dec"]
    /\ UNCHANGED <<fs, num_threads, task, pos, cur, root, queue, handlers, waiting,
                   sub_drafts, results, joined, pushed, popped, merged>>
    /\ UNCHANGED checker_vars

\* sub_worker: notify_one at the end of the round
NotifyDec(t) ==
    /\ tpc[t] = "notify_dec"
    /\ NotifyOne(t, "lock")
    /\ UNCHANGED <<fs, num_threads, task, pos, cur, root, queue, active_count, handlers,
                   sub_drafts, results, joined, pushed, popped, merged>>
    /\ UNCHANGED checker_vars

\* Condvar::wait may return without a notification
SpuriousWake(t) ==
    /\ t \in waiting
    /\ waiting' = waiting \ {t}
    /\ tpc' = [tpc EXCEPT ![t] = "lock"]
    /\ UNCHANGED <<fs, num_threads, task, pos, cur, root, queue, active_count, handlers,
                   sub_drafts, results, joined, pushed, popped, merged>>
    /\ UNCHANGED checker_vars

\* the root with the outcome m of draft.merge(sub_draft) for the result r
AfterMerge(r, m) ==
    [draft |-> m.draft, errors |-> root.errors \o r.errors \o m.errors]

\* parse_helper of the root: one round of a loop over the results of a worker
MergeResult ==
    /\ tpc[0] = "merge" /\ results # <<>>
    /\ \E order \in MergeOrders(Head(results).draft) :
           root' = AfterMerge(Head(results),
                              LedgerDraft_merge(root.draft, Head(results).draft, order))
    /\ results' = Tail(results)
    /\ merged' = Append(merged, Head(results).task)
    /\ UNCHANGED <<fs, num_threads, tpc, task, pos, cur, queue, active_count, handlers,
                   waiting, sub_drafts, joined, pushed, popped>>
    /\ UNCHANGED checker_vars

\* parse_helper of the root: handler.join() of the next worker, once it has returned
JoinHandler ==
    /\ tpc[0] = "merge" /\ results = <<>>
    /\ joined < Len(handlers.val)
    /\ tpc[handlers.val[joined + 1]] = "returned"
    /\ results' = sub_drafts[handlers.val[joined + 1]]
    /\ joined' = joined + 1
    /\ UNCHANGED <<fs, num_threads, tpc, task, pos, cur, root, queue, active_count,
                   handlers, waiting, sub_drafts, pushed, popped, merged>>
    /\ UNCHANGED checker_vars

\* parse_helper of the root returns (draft, errors)
ParseReturn ==
    /\ tpc[0] = "merge" /\ results = <<>>
    /\ joined = Len(handlers.val)
    /\ tpc' = [tpc EXCEPT ![0] = "returned"]
    /\ UNCHANGED <<fs, num_threads, task, pos, cur, root, queue, active_count, handlers,
                   waiting, sub_drafts, results, joined, pushed, popped, merged>>
    /\ UNCHANGED checker_vars

\* the steps of thread t
ThreadStep(t) ==
    \/ ReadFile(t) \/ ReadFails(t) \/ ParseLocal(t) \/ IncludePush(t) \/ NotifyPush(t)
    \/ ParseEndSub(t) \/ SubWorkerWait(t) \/ SubWorkerPop(t) \/ SubWorkerReturn(t)
    \/ Decrement(t) \/ NotifyDec(t)
\* the steps of the root alone
RootStep == IncludeSpawn \/ ParseEndRoot \/ MergeResult \/ JoinHandler \/ ParseReturn

NextParse ==
    \/ \E t \in Threads : ReadFile(t)
    \/ \E t \in Threads : ReadFails(t)
    \/ \E t \in Threads : ParseLocal(t)
    \/ IncludeSpawn
    \/ \E t \in Threads : IncludePush(t)
    \/ \E t \in Threads : NotifyPush(t)
    \/ \E t \in Threads : ParseEndSub(t)
    \/ ParseEndRoot
    \/ \E t \in Threads : SubWorkerWait(t)
    \/ \E t \in Threads : SubWorkerPop(t)
    \/ \E t \in Threads : SubWorkerReturn(t)
    \/ \E t \in Threads : Decrement(t)
    \/ \E t \in Threads : NotifyDec(t)
    \/ \E t \in Threads : SpuriousWake(t)
    \/ MergeResult
    \/ JoinHandler
    \/ ParseReturn

SpecParse == InitParse /\ [][NextParse]_vars

\* every thread that can take a step takes one in the end; a wake-up without
\* notification is not relied on
FairSpecParse ==
    /\ SpecParse
    /\ \A t \in Threads : WF_vars(ThreadStep(t))
    /\ WF_vars(RootStep)

(***************************************************************************)
(* Parser::parse on one file without include: the files of SpecFile are    *)
(* the sequences of at most MaxDirectives directives of DirectiveMenu.     *)
(***************************************************************************)
MaxDirectives == 4

DirectiveMenu ==
    {PushTag("x"), PopTag("x"), OptionDirective("title", "1"),
     CommodityDirective("USD", EmptyMap),
     OpenDirective(1, "A", {"USD"}), OpenDirective(2, "A", {}),
     TxnDirective(1, "Posted", Balanced1), TxnDirective(1, "Balance", <<P("A", 1, "USD")>>)}

DirectiveLists == UNION {[1..n -> DirectiveMenu] : n \in 0..MaxDirectives}

InitFile ==
    /\ fs \in {[f \in {"main"} |-> l] : l \in DirectiveLists}
    /\ num_threads = 1
    /\ tpc = [t \in Threads |-> IF t = 0 THEN "read" ELSE "unborn"]
    /\ task = [t \in Threads |-> IF t = 0 THEN RootTask ELSE NoTask]
    /\ pos = [t \in Threads |-> 0]
    /\ cur = [t \in Threads |-> NewParser]
    /\ root = [draft |-> DefaultDraft, errors |-> <<>>]
    /\ queue = <<>>
    /\ active_count = 0
    /\ handlers = None
    /\ waiting = {}
    /\ sub_drafts = [t \in Threads |-> <<>>]
    /\ results = <<>>
    /\ joined = 0
    /\ pushed = <<>>
    /\ popped = <<>>
    /\ merged = <<>>
    /\ draft = DefaultDraft
    /\ InitChecker

NextFile == ReadFile(0) \/ ParseLocal(0) \/ ParseEndRoot

SpecFile == InitFile /\ [][NextFile]_vars

(***************************************************************************)
(* into_ledger as a function of the draft, for the drafts Parser::parse    *)
(* returns: they hold no lot, h is the order of the HashMaps.              *)
(***************************************************************************)
RECURSIVE ReplayAll(_, _, _, _, _)
\* the loop `for txn in txns`
ReplayAll(ts, ck, accounts, tols, h) ==
    IF ts = <<>> \/ ck.panic THEN ck
    ELSE ReplayAll(Tail(ts), ReplayTxn(Head(ts), ck, accounts, tols, h), accounts, tols, h)

IntoLedgerWith(d, a, t, h) ==
    ReplayAll(SortTxns(d.txns, option_balance_at_day_end(d.options)),
              [valid_txns |-> <<>>, running_balance |-> EmptyMap, pad_from |-> EmptyMap,
               pad_to |-> EmptyMap, errors |-> a.errors \o t.errors, panic |-> FALSE],
              a.accounts, t.tolerances, h)

into_ledger(d, h) ==
    IntoLedgerWith(d, check_accounts(d.accounts),
                   extract_tolerance(d.commodities, d.options), h)

\* the transaction list and the balance sheet of the Ledgers into_ledger may return
Ledgers(d) ==
    {[txns |-> into_ledger(d, h).valid_txns,
      balance_sheet |-> into_ledger(d, h).running_balance] : h \in HashOrders(EmptyMap)}

(***************************************************************************)
(* The claims on Parser::parse.                                            *)
(***************************************************************************)
RECURSIVE IncludesOf(_, _, _)
\* the tasks the directives i.. of the file of `path` push, in their order
IncludesOf(files, path, i) ==
    IF path \notin DOMAIN files \/ i > Len(files[path]) THEN <<>>
    ELSE (IF files[path][i].kind = "include"
          THEN <<Task(files[path][i].path, <<path, i, 0>>)>> ELSE <<>>)
         \o IncludesOf(files, path, i + 1)

RECURSIVE QueueOrder(_, _)
\* the order in which one thread alone pops the tasks, q the queue
QueueOrder(files, q) ==
    IF q = <<>> THEN <<>>
    ELSE <<Head(q)>> \o QueueOrder(files, Tail(q) \o IncludesOf(files, Head(q).path, 1))

RECURSIVE ParseFile(_, _, _, _)
\* the (draft, errors) of a file: its directives i.. but the includes
ParseFile(files, path, i, st) ==
    IF i > Len(files[path]) THEN [draft |-> st.draft, errors |-> st.errors]
    ELSE IF files[path][i].kind = "include" THEN ParseFile(files, path, i + 1, st)
    ELSE ParseFile(files, path,
                   NextDirective(files[path], i, st,
                                 parse_directive(st, files[path][i], path, i)),
                   parse_directive(st, files[path][i], path, i))

ResultOf(files, t) ==
    IF t.path \in DOMAIN files THEN ParseFile(files, t.path, 1, NewParser)
    ELSE IoFailure(t)

RECURSIVE MergeInOrder(_, _, _)
\* the draft after the results of the tasks `order` were merged one after the other
MergeInOrder(files, d, order) ==
    IF order = <<>> THEN d
    ELSE MergeInOrder(files,
             LedgerDraft_merge(d, ResultOf(files, Head(order)).draft,
                               CHOOSE o \in MergeOrders(ResultOf(files, Head(order)).draft) :
                                   TRUE).draft,
             Tail(order))

\* the draft Parser::parse returns when the root is the only thread
SequentialDraft(files) ==
    MergeInOrder(files, ResultOf(files, RootTask).draft,
                 QueueOrder(files, IncludesOf(files, RootTask.path, 1)))

ParseReturned == tpc[0] = "returned"

\* C8 as stated: whatever the interleaving of the threads and their number, the
\* transaction list and the balance sheet of the Ledger of the draft Parser::parse
\* returns are those of the run with one thread
C8_LedgerIndependentOfInterleaving ==
    ParseReturned => Ledgers(root.draft) = Ledgers(SequentialDraft(fs))

\* C9: under fair scheduling Parser::parse returns, every worker has returned and no
\* thread is left waiting on the condition variable
C9_ParseTerminates ==
    <>[](/\ ParseReturned
         /\ waiting = {}
         /\ \A t \in 1..(num_threads - 1) : IsSome(handlers) => tpc[t] = "returned")

\* Parser::parse has returned, three threads have popped tasks, and the task of a
\* nested include was among them
C9_Witness ==
    /\ ParseReturned /\ num_threads = MaxThreads
    /\ {popped[i][2] : i \in DOMAIN popped} = Threads
    /\ \E i \in DOMAIN popped : popped[i][1].src[1] # "main"

\* the results of sub_worker that stem from the task k
ResultsOf(k) ==
    {<<t, i>> \in Threads \X (1..Len(pushed)) :
        i <= Len(sub_drafts[t]) /\ sub_drafts[t][i].task = k}
\* the transactions and the Io error of the task k are in what the root returns
MergedIntoRoot(k) ==
    IF k.path \in DOMAIN fs
    THEN \A i \in DOMAIN fs[k.path] :
             fs[k.path][i].kind = "txn" =>
                 Cardinality({j \in DOMAIN root.draft.txns :
                                 root.draft.txns[j].src = <<k.path, i, 0>>}) = 1
    ELSE \E j \in DOMAIN root.errors :
             root.errors[j].type = "Io" /\ root.errors[j].src = k.src

\* C10: no task is popped twice, and when Parser::parse returns every task that was
\* pushed has been popped once, parsed once and merged once into the draft of the root
C10_EveryTaskParsedAndMerged ==
    /\ \A i, j \in DOMAIN popped : popped[i][1] = popped[j][1] => i = j
    /\ ParseReturned =>
           \A k \in Range(pushed) :
               /\ Cardinality({i \in DOMAIN popped : popped[i][1] = k}) = 1
               /\ Cardinality(ResultsOf(k)) = 1
               /\ Cardinality({i \in DOMAIN merged : merged[i] = k}) = 1
               /\ MergedIntoRoot(k)

\* Parser::parse has returned with three threads, the root has popped a task in its
\* own round and a worker has popped the task of a nested include
C10_Witness ==
    /\ ParseReturned /\ num_threads = MaxThreads /\ Len(pushed) = 4
    /\ \E i \in DOMAIN popped : popped[i][2] = 0
    /\ \E i \in DOMAIN popped : popped[i][2] # 0 /\ popped[i][1].src[1] # "main"

\* the tasks that were parsed: the root and the tasks popped
ParsedTasks == {RootTask} \cup {popped[i][1] : i \in DOMAIN popped}
\* a directive of a file that can be read is in the draft of the root
DirectivePresent(path, i) ==
    CASE fs[path][i].kind = "txn" ->
             Cardinality({j \in DOMAIN root.draft.txns :
                             /\ root.draft.txns[j].src = <<path, i, 0>>
                             /\ root.draft.txns[j].date = fs[path][i].date
                             /\ root.draft.txns[j].flag = fs[path][i].flag
                             /\ root.draft.txns[j].postings = fs[path][i].postings}) = 1
      [] fs[path][i].kind = "open" ->
             /\ fs[path][i].account \in DOMAIN root.draft.accounts
             /\ IsSome(root.draft.accounts[fs[path][i].account].open)
      [] fs[path][i].kind = "option" -> fs[path][i].key \in DOMAIN root.draft.options
      [] OTHER -> TRUE
IoErrorsOf(k) ==
    {j \in DOMAIN root.errors : root.errors[j].type = "Io" /\ root.errors[j].src = k.src}

\* C11: when Parser::parse returns, every task whose path cannot be read has produced
\* exactly one error Io of level Error, at the source of the include directive (at the
\* synthetic source for the root file), and an empty draft; the directives of the
\* files that can be read are in the draft of the root
C11_UnreadableFileIsOneIoError ==
    ParseReturned =>
        /\ \A k \in ParsedTasks :
               IF k.path \in DOMAIN fs
               THEN IoErrorsOf(k) = {} /\ \A i \in DOMAIN fs[k.path] : DirectivePresent(k.path, i)
               ELSE /\ Cardinality(IoErrorsOf(k)) = 1
                    /\ \A j \in IoErrorsOf(k) : root.errors[j].level = "Error"
                    /\ \A t \in Threads : \A i \in DOMAIN sub_drafts[t] :
                           sub_drafts[t][i].task = k => sub_drafts[t][i].draft = DefaultDraft
                    /\ k = RootTask => root.draft = DefaultDraft
        /\ Cardinality({j \in DOMAIN root.errors : root.errors[j].type = "Io"})
               = Cardinality({k \in ParsedTasks : k.path \notin DOMAIN fs})

\* Parser::parse has returned, an included file could not be read, and the three
\* transactions of the other files are in the draft
C11_Witness ==
    /\ ParseReturned
    /\ \E k \in Range(pushed) : k.path \notin DOMAIN fs
    /\ Len(root.draft.txns) = 3

\* C12: into_ledger reaches no panic: no division by zero and no failed unwrap
C12_NoPanic == pc # "panic"

\* a panic of to_unit_cost, of the cost inference of complete_posting, or of
\* into_unit_price: the first transaction has a posting with the number 0
C12_ZeroNumberPanics ==
    ~(/\ pc = "panic"
      /\ TOLERANCE_KEY_DEFAULT \in DOMAIN tolerances
      /\ Len(draft.txns) = 1)

\* a panic of the unwrap of equal_within: no default tolerance was extracted
C12_UnwrapPanics ==
    ~(/\ pc = "panic"
      /\ TOLERANCE_KEY_DEFAULT \notin DOMAIN tolerances
      /\ \A i \in DOMAIN draft.txns : \A j \in DOMAIN draft.txns[i].postings :
             IsSome(draft.txns[i].postings[j].amount) =>
                 ~DecIsZero(draft.txns[i].postings[j].amount.val.number))

\* the posting fails the account check at the date: unknown account, date before the
\* open date, date after the close date, or a written currency outside the allowed set
C13_Fails(posting, date) ==
    \/ posting.account \notin DOMAIN valid_accounts
    \/ date < valid_accounts[posting.account].open
    \/ /\ IsSome(valid_accounts[posting.account].close)
       /\ date > valid_accounts[posting.account].close.val
    \/ /\ IsSome(posting.amount)
       /\ valid_accounts[posting.account].currencies # {}
       /\ posting.amount.val.currency \notin valid_accounts[posting.account].currencies
C13_Failing(txn) == {j \in DOMAIN txn.postings : C13_Fails(txn.postings[j], txn.date)}
\* the errors the last step has added
NewErrors == SubSeq(errors, Len(last.before.errors) + 1, Len(errors))

\* C13: a transaction of any flag with a posting that fails the account check adds one
\* error Account of level Error for each failing posting, in their order, and nothing
\* else: it is not appended to txns and the running balance, pad_from and pad_to stay
C13_InvalidTransactionSkipped ==
    (last.op # "none" /\ pc # "panic" /\ C13_Failing(last.txn) # {}) =>
        /\ SubSeq(errors, 1, Len(last.before.errors)) = last.before.errors
        /\ Len(NewErrors) = Cardinality(C13_Failing(last.txn))
        /\ \A j \in C13_Failing(last.txn) :
               NewErrors[Cardinality({i \in C13_Failing(last.txn) : i <= j})]
                   = Error("Account", "Error", PostingSrc(last.txn.src, j))
        /\ valid_txns = last.before.valid_txns
        /\ running_balance = last.before.running_balance
        /\ pad_from = last.before.pad_from
        /\ pad_to = last.before.pad_to

\* a Balance transaction with a failing posting was skipped while a pad out of the
\* account of its other posting was pending
C13_Witness ==
    /\ last.op = "Invalid" /\ last.txn.flag = "Balance"
    /\ C13_Failing(last.txn) # {}
    /\ PadsToForget(last.txn, last.before.pad_to) \cap DOMAIN last.before.pad_from # {}

\* the last step was a Posted or Pending transaction that check_complete_txn rejected
Rejected == last.op = "Complete" /\ NewErrors # <<>>

\* C14: a Posted or Pending transaction that check_complete_txn rejects adds its one
\* error (NoMatch, Incomplete or NotBalanced, level Error), leaves the running balance
\* as it was before the transaction, is not appended to txns, and the replay goes on
C14_RejectedTransactionLeavesBalance ==
    /\ Rejected =>
          /\ Len(NewErrors) = 1
          /\ NewErrors[1].type \in {"NoMatch", "Incomplete", "NotBalanced"}
          /\ NewErrors[1].level = "Error"
          /\ SubSeq(errors, 1, Len(last.before.errors)) = last.before.errors
          /\ running_balance = last.before.running_balance
          /\ valid_txns = last.before.valid_txns
          /\ pad_from = last.before.pad_from /\ pad_to = last.before.pad_to
          /\ pc \in {"replay", "done"}
    /\ (last.op = "Complete" /\ pc # "panic" /\ NewErrors = <<>>) =>
          /\ Len(valid_txns) = Len(last.before.valid_txns) + 1
          /\ valid_txns[Len(valid_txns)].src = last.txn.src

\* a transaction was rejected as NotBalanced after each of its postings was processed,
\* the first one on an account that held a position, and a later transaction was replayed
C14_Witness ==
    /\ Rejected /\ NewErrors[1].type = "NotBalanced"
    /\ IsSome(last.txn.postings[1].amount)
    /\ last.txn.postings[1].account \in {k[1] : k \in DOMAIN last.before.running_balance}
    /\ txns # <<>>

\* the destination account of the pad directive behind the placeholder valid_txns[i]
PadDest(i) ==
    (CHOOSE t \in Range(draft.txns) : t.src = valid_txns[i].src).postings[1].account
Placeholders == {i \in DOMAIN valid_txns : valid_txns[i].flag = "Pad"}
\* a later Balance transaction of txns has a posting on the account
BalancedLater(i, account) ==
    \E j \in DOMAIN valid_txns :
        /\ j > i /\ valid_txns[j].flag = "Balance"
        /\ \E p \in Range(valid_txns[j].postings) : p.account = account
\* the entries of the running balance the last step has changed
ChangedEntries ==
    {k \in (DOMAIN running_balance) \cup (DOMAIN last.before.running_balance) :
        MapGet(running_balance, k, EmptyMap) # MapGet(last.before.running_balance, k, EmptyMap)}

\* C16: replaying a Pad directive changes no entry of the running balance; a placeholder
\* has postings only when a later Balance transaction has a posting on its destination
\* account; and a Balance transaction changes the running balance only for the account
\* and the currency of one of its postings and for the source of a pad to that account
C16_PadChangesNoBalance ==
    /\ last.op = "Pad" =>
          /\ running_balance = last.before.running_balance
          /\ Len(valid_txns) = Len(last.before.valid_txns) + 1 =>
                 valid_txns[Len(valid_txns)].postings = <<>>
    /\ \A i \in Placeholders :
          valid_txns[i].postings # <<>> => BalancedLater(i, PadDest(i))
    /\ last.op = "Balance" =>
          \A k \in ChangedEntries :
              \E p \in Range(last.txn.postings) :
                  /\ IsSome(p.amount) /\ p.amount.val.currency = k[2]
                  /\ \/ k[1] = p.account
                     \/ /\ p.account \in DOMAIN last.before.pad_from
                        /\ k[1] = last.before.pad_from[p.account].from

\* the Ledger is returned with a placeholder a Balance posting has filled and a
\* placeholder without postings
C16_Witness ==
    /\ pc = "done"
    /\ \E i \in Placeholders : valid_txns[i].postings # <<>>
    /\ \E i \in Placeholders : valid_txns[i].postings = <<>>

\* the postings of a draft that have no amount
WithoutAmount(txn) == {j \in DOMAIN txn.postings : IsNone(txn.postings[j].amount)}
\* the last step has appended the transaction of a Posted or Pending draft
Accepted ==
    /\ last.op = "Complete" /\ pc # "panic" /\ NewErrors = <<>>
    /\ Len(valid_txns) = Len(last.before.valid_txns) + 1
LastTxn == valid_txns[Len(valid_txns)]
\* the postings of the transaction appended that come from posting j of the draft, and
\* the others
PostingsOf(j) == SelectSeq(LastTxn.postings, LAMBDA p : p.src = PostingSrc(last.txn.src, j))
PostingsBut(j) == SelectSeq(LastTxn.postings, LAMBDA p : p.src # PostingSrc(last.txn.src, j))
\* within tolerance: zero, or of a magnitude strictly below the tolerance of the currency
C19_Within(number, c) ==
    DecIsZero(number) \/ DecLt(DecAbs(number), ToleranceOf(c, tolerances))

\* C19: an accepted Posted or Pending transaction with exactly one posting without amount
\* has, in the place of that posting, one posting for every currency in which the weights
\* of the other postings do not sum to a number within tolerance, with minus that sum as
\* its number, without cost and price, on the account of the posting, and none for the
\* other currencies; the running balance of the account changes under the lot None by
\* the numbers of the postings of the transaction on the account.  A transaction with
\* two postings without amount is dropped with an error Incomplete at the second one
C19_AmountInferred ==
    /\ (Accepted /\ Cardinality(WithoutAmount(last.txn)) = 1) =>
          \A j \in WithoutAmount(last.txn) :
              /\ \A p \in Range(PostingsOf(j)) :
                     /\ p.account = last.txn.postings[j].account
                     /\ IsNone(p.cost) /\ IsNone(p.price)
              /\ \A c \in Currencies :
                     IF C19_Within(WeightSum(PostingsBut(j), c), c)
                     THEN \A p \in Range(PostingsOf(j)) : p.amount.currency # c
                     ELSE /\ Cardinality({i \in DOMAIN PostingsOf(j) :
                                             PostingsOf(j)[i].amount.currency = c}) = 1
                          /\ \A p \in Range(PostingsOf(j)) :
                                 p.amount.currency = c =>
                                     p.amount.number = DecNeg(WeightSum(PostingsBut(j), c))
              /\ \A c \in Currencies :
                     DecSub(Held(last.txn.postings[j].account, c, None),
                            HeldIn(last.before.running_balance,
                                   last.txn.postings[j].account, c, None))
                         = NumberSum(LastTxn.postings, last.txn.postings[j].account, c, None)
    /\ (last.op = "Complete" /\ Cardinality(WithoutAmount(last.txn)) >= 2) =>
          /\ valid_txns = last.before.valid_txns
          /\ running_balance = last.before.running_balance
          /\ \E j \in WithoutAmount(last.txn) :
                 /\ Cardinality({i \in WithoutAmount(last.txn) : i < j}) = 1
                 /\ NewErrors = <<Error("Incomplete", "Error", PostingSrc(last.txn.src, j))>>

\* amounts were inferred in two currencies at once, after a transaction was accepted
\* with no posting in the place of its posting without amount
C19_Witness ==
    /\ Accepted /\ Cardinality(WithoutAmount(last.txn)) = 1
    /\ \E j \in WithoutAmount(last.txn) : Len(PostingsOf(j)) = 2
    /\ \E i \in DOMAIN last.before.valid_txns :
           /\ last.before.valid_txns[i].flag = "Posted"
           /\ Len(DraftOf(last.before.valid_txns[i]).postings) = 3
           /\ Len(last.before.valid_txns[i].postings) = 2

RECURSIVE ParseEvery(_, _, _, _)
\* the Parser after each of the directives i.. of the file was parsed, none skipped
ParseEvery(directives, path, i, st) ==
    IF i > Len(directives) THEN st
    ELSE ParseEvery(directives, path, i + 1, parse_directive(st, directives[i], path, i))

\* C15: the diagnostics of level Info and Warning (duplicate pushtag, poptag of an absent
\* tag, duplicate option, duplicate commodity) skip no directive: the draft, the errors
\* and the tagset of a file whose diagnostics are all of these levels are those of
\* parsing each of its directives in turn
C15_DiagnosticSkipsNoDirective ==
    (ParseReturned /\ \A i \in DOMAIN cur[0].errors : cur[0].errors[i].level \in {"Info", "Warning"})
        => cur[0] = ParseEvery(fs["main"], "main", 1, NewParser)

\* the open directives of the file for the account, and the first of them
OpensOf(directives, a) ==
    {i \in DOMAIN directives : directives[i].kind = "open" /\ directives[i].account = a}
FirstOpen(directives, a) ==
    directives[CHOOSE i \in OpensOf(directives, a) : \A k \in OpensOf(directives, a) : i <= k]
DuplicateErrors ==
    {j \in DOMAIN root.errors :
        root.errors[j].type = "Duplicate" /\ root.errors[j].level = "Error"}

\* C17: when a file has two open directives for an account, one error Duplicate of
\* level Error is reported, and the draft keeps the open date and the currency set of
\* the first of them
C17_SecondOpenIsDuplicate ==
    ParseReturned =>
        \A a \in {"A"} :
            Cardinality(OpensOf(fs["main"], a)) >= 2 =>
                /\ Cardinality(DuplicateErrors) = Cardinality(OpensOf(fs["main"], a)) - 1
                /\ root.draft.accounts[a].open = Some(FirstOpen(fs["main"], a).date)
                /\ root.draft.accounts[a].currencies = FirstOpen(fs["main"], a).currencies

Tags == {"x"}
\* directive i of the file comes after a `pushtag x` and before the next `poptag x`
TagOpenAt(directives, i, x) ==
    \E j \in 1..(i - 1) :
        /\ directives[j] = PushTag(x)
        /\ \A k \in (j + 1)..(i - 1) : directives[k] # PopTag(x)

\* C20: a transaction that is no Balance carries the tag x exactly when it comes after a
\* `pushtag x` and before the next `poptag x` of its file; a Balance inherits no tag; a
\* pushtag of a tag that is not pushed at that place raises no error, popped later or not
C20_TagsFollowPushAndPop ==
    ParseReturned =>
        /\ \A j \in DOMAIN root.draft.txns :
               root.draft.txns[j].tags =
                   IF root.draft.txns[j].flag = "Balance" THEN {}
                   ELSE {x \in Tags : TagOpenAt(fs["main"], root.draft.txns[j].src[2], x)}
        /\ \A i \in DOMAIN fs["main"] :
               (fs["main"][i].kind = "pushtag" /\ ~TagOpenAt(fs["main"], i, fs["main"][i].tag))
                   => \A j \in DOMAIN root.errors : root.errors[j].src # <<"main", i, 0>>

\* the key and the stored value of an option or commodity directive at <<path, i>>
KeyOf(dir) == IF dir.kind = "option" THEN dir.key ELSE dir.currency
ValueOf(d) ==
    IF fs[d[1]][d[2]].kind = "option"
    THEN OptionValue(fs[d[1]][d[2]].val, <<d[1], d[2], 0>>)
    ELSE CommodityValue(fs[d[1]][d[2]].meta, <<d[1], d[2], 0>>)
StoredOf(kind) == IF kind = "option" THEN root.draft.options ELSE root.draft.commodities
\* the definitions of the key in the files that were parsed, as <<path, i>>
Definitions(kind, key) ==
    {d \in UNION {{<<k.path, i>> : i \in DOMAIN fs[k.path]} :
                     k \in {q \in ParsedTasks : q.path \in DOMAIN fs}} :
        fs[d[1]][d[2]].kind = kind /\ KeyOf(fs[d[1]][d[2]]) = key}
KeysOf(kind) ==
    UNION {{KeyOf(fs[f][i]) : i \in {j \in DOMAIN fs[f] : fs[f][j].kind = kind}} :
              f \in DOMAIN fs}
\* the place of a file in the order of definition: the root file, then the order in
\* which the results of the tasks are merged
MergeRank(path) ==
    IF path = RootTask.path THEN 0 ELSE CHOOSE i \in DOMAIN merged : merged[i].path = path
DefinedBefore(d, e) ==
    \/ MergeRank(d[1]) < MergeRank(e[1])
    \/ d[1] = e[1] /\ d[2] < e[2]
DuplicateWarningsAt(src) ==
    {j \in DOMAIN root.errors :
        /\ root.errors[j].type = "Duplicate" /\ root.errors[j].level = "Warning"
        /\ root.errors[j].src = src}

\* C18: for options and for commodities, when Parser::parse returns the draft stores,
\* for every key, the value and the source of the definition that came first (in its
\* file, and in the order in which the files are merged), without an error at that
\* definition, and there is exactly one Warning Duplicate at each later definition
C18_FirstDefinitionWins ==
    ParseReturned =>
        \A kind \in {"option", "commodity"} :
            /\ DOMAIN StoredOf(kind) = {key \in KeysOf(kind) : Definitions(kind, key) # {}}
            /\ \A key \in DOMAIN StoredOf(kind) :
                   \E d \in Definitions(kind, key) :
                       /\ StoredOf(kind)[key] = ValueOf(d)
                       /\ DuplicateWarningsAt(<<d[1], d[2], 0>>) = {}
                       /\ \A e \in Definitions(kind, key) \ {d} :
                              /\ DefinedBefore(d, e)
                              /\ Cardinality(DuplicateWarningsAt(<<e[1], e[2], 0>>)) = 1

\* Parser::parse has returned with options and commodities defined twice in one file
\* and in two files, and y was merged before x
C18_Witness ==
    /\ ParseReturned /\ fs = DuplicateFiles
    /\ root.draft.options[OPTION_DEFAULT_TOLERANCE] = OptionValue("0", <<"y", 1, 0>>)
    /\ root.draft.options["title"] = OptionValue("1", <<"main", 1, 0>>)
    /\ Cardinality({j \in DOMAIN root.errors : root.errors[j].type = "Duplicate"}) = 6

(***************************************************************************)
(* Positions held at cost: opening and closing.                            *)
(***************************************************************************)
\* the quantity q of a lot has the sign opposite to the number n of a posting
Opposite(q, n) == (DecLt(q, Zero) /\ DecLt(Zero, n)) \/ (DecLt(Zero, q) /\ DecLt(n, Zero))
\* the lot map `lots` (an Option) holds a lot Some(_) of the sign opposite to n
HoldsOpposite(lots, n) ==
    IsSome(lots) /\ \E k \in DOMAIN lots.val : IsSome(k) /\ Opposite(lots.val[k], n)
\* the postings with amount and cost of the transaction of the last step
CostPostings ==
    {j \in DOMAIN last.txn.postings :
        IsSome(last.txn.postings[j].amount) /\ IsSome(last.txn.postings[j].cost)}
\* the lots the posting j of the last step met
LotsMet(j) ==
    Lots(last.before.running_balance, last.txn.postings[j].account,
         last.txn.postings[j].amount.val.currency)

\* C21: for a posting with amount and cost, is_opening_new answers true exactly when
\* the running balance of its account and currency holds no lot Some(_) of the sign
\* opposite to the number of the posting, in every iteration order of the lots
C21_OpeningIffNoOppositeLot ==
    last.op = "Complete" =>
        \A j \in CostPostings :
            \A h \in HashOrders(last.before.running_balance) :
                is_opening_new(last.txn.postings[j].amount.val.number, LotsMet(j), h)
                    <=> ~HoldsOpposite(LotsMet(j), last.txn.postings[j].amount.val.number)

\* the decision of is_opening_new for a posting of the last step depends on the
\* iteration order of the lots
C21_OrderDecides ==
    /\ last.op = "Complete"
    /\ \E j \in CostPostings :
           \E h1, h2 \in HashOrders(last.before.running_balance) :
               /\ is_opening_new(last.txn.postings[j].amount.val.number, LotsMet(j), h1)
               /\ ~is_opening_new(last.txn.postings[j].amount.val.number, LotsMet(j), h2)

\* the cost-tracked lots held before the last step, as <<account, currency, lot>>
LotsBefore ==
    UNION {{<<ac[1], ac[2], k>> : k \in {x \in DOMAIN last.before.running_balance[ac] : IsSome(x)}} :
              ac \in DOMAIN last.before.running_balance}
\* the total of the numbers of the postings of the accepted transaction that reduce
\* the lot l: those on its account, currency and cost with the sign opposite to the
\* quantity q held before
Reduction(l, q) ==
    NumberSum(SelectSeq(LastTxn.postings, LAMBDA p : Opposite(q, p.amount.number)),
              l[1], l[2], l[3])

\* C22: for every cost-tracked lot held before an accepted Posted or Pending
\* transaction, the magnitude of the total its postings take from the lot is at most
\* the magnitude of the quantity held before, and the quantity held after does not
\* have the opposite sign
C22_LotNeverOverdrawn ==
    Accepted =>
        \A l \in LotsBefore :
            /\ ~DecLt(DecAbs(HeldIn(last.before.running_balance, l[1], l[2], l[3])),
                      DecAbs(Reduction(l, HeldIn(last.before.running_balance, l[1], l[2], l[3]))))
            /\ ~Opposite(HeldIn(last.before.running_balance, l[1], l[2], l[3]),
                         Held(l[1], l[2], l[3]))

\* an accepted transaction with two closing postings on one lot, each within the
\* quantity held
C22_TwoClosingsOfOneLot ==
    /\ Accepted
    /\ \E l \in LotsBefore :
           \E i, j \in DOMAIN LastTxn.postings :
               /\ i < j
               /\ \A n \in {i, j} :
                      /\ LastTxn.postings[n].account = l[1]
                      /\ LastTxn.postings[n].amount.currency = l[2]
                      /\ LastTxn.postings[n].cost = l[3]
                      /\ Opposite(HeldIn(last.before.running_balance, l[1], l[2], l[3]),
                                  LastTxn.postings[n].amount.number)

\* the postings of the last step with a cost literal that names an amount or a date
LiteralPostings ==
    {j \in CostPostings :
        \/ IsSome(last.txn.postings[j].cost.val.basis)
        \/ IsSome(last.txn.postings[j].cost.val.date)}
\* the posting j of the last step is a closing in every iteration order of the lots
Closing(j) ==
    \A h \in HashOrders(last.before.running_balance) :
        ~is_opening_new(last.txn.postings[j].amount.val.number, LotsMet(j), h)
\* the lots the literal of posting j selects: the key it spells out when it has both
\* parts, else the lots held at cost that agree with the part it has
Selected(j) ==
    LET posting == last.txn.postings[j]
        literal == posting.cost.val
        amount == to_unit_cost(literal.basis.val, posting.amount.val.number)
    IN  IF IsSome(literal.basis) /\ IsSome(literal.date)
        THEN {Some(UnitCost(amount, literal.date.val))}
        ELSE {k \in DOMAIN LotsMet(j).val :
                 /\ IsSome(k)
                 /\ IsSome(literal.basis) => k.val.amount = amount
                 /\ IsSome(literal.date) => k.val.date = literal.date.val}
\* what close_position answers for the posting j on the lots it met
ClosePosition(j) ==
    close_position(last.txn.postings[j], PostingSrc(last.txn.src, j), LotsMet(j),
                   CHOOSE h \in HashOrders(last.before.running_balance) : TRUE,
                   EnsureEntry(EmptyMap, last.txn.postings[j].account,
                               last.txn.postings[j].amount.val.currency),
                   EmptyMap)
\* the lot k is selected and holds enough for the posting j
Suffices(j, k) ==
    /\ Selected(j) = {k}
    /\ ~DecLt(DecAbs(MapGet(LotsMet(j).val, k, Zero)),
              DecAbs(last.txn.postings[j].amount.val.number))

EmptyLiteralPostings == CostPostings \ LiteralPostings
\* the lots at cost the posting j met
SomeLotsMet(j) == {k \in DOMAIN LotsMet(j).val : IsSome(k)}
\* the sum of the lots at cost and of the number of the posting j is zero
ClosesAll(j) ==
    DecIsZero(DecAdd(SumLots(LotsMet(j).val, SomeLotsMet(j)),
                     last.txn.postings[j].amount.val.number))
\* what close_position answers for the posting j in the iteration order h
ClosePositionIn(j, h) ==
    close_position(last.txn.postings[j], PostingSrc(last.txn.src, j), LotsMet(j), h,
                   EnsureEntry(EmptyMap, last.txn.postings[j].account,
                               last.txn.postings[j].amount.val.currency),
                   EmptyMap)
\* the posting that closes the lot k for the posting j
ClosingOf(j, k) ==
    Posting(last.txn.postings[j].account,
            Amount(DecNeg(LotsMet(j).val[k]), last.txn.postings[j].amount.val.currency),
            k, None, PostingSrc(last.txn.src, j))

TotalCostPostings ==
    {j \in CostPostings :
        /\ IsSome(last.txn.postings[j].cost.val.basis)
        /\ last.txn.postings[j].cost.val.basis.val.kind = "Total"
        /\ ~DecIsZero(last.txn.postings[j].amount.val.number)}
\* the posting with its total cost {{t CUR}} written as the unit cost {(t / |n|) CUR}
AsUnitCost(posting) ==
    [posting EXCEPT !.cost =
        Some(CostLiteral(posting.cost.val.date,
                 Some(CostBasisUnit(
                     Amount(DecDiv(posting.cost.val.basis.val.amount.number,
                                   DecAbs(posting.amount.val.number)),
                            posting.cost.val.basis.val.amount.currency)))))]
\* the transaction of the last step with its posting j written with the unit cost
WithUnitCost(j) == [last.txn EXCEPT !.postings[j] = AsUnitCost(@)]
\* t for a positive number, -t for a negative one
SignedTotal(posting) ==
    IF DecLt(posting.amount.val.number, Zero)
    THEN DecNeg(posting.cost.val.basis.val.amount.number)
    ELSE posting.cost.val.basis.val.amount.number

\* C25: a posting of number n (not 0) that opens a lot with the total cost {{t CUR}}
\* gets the UnitCost amount t / |n| and changes the net change of the transaction in
\* CUR by t for a positive n and by -t for a negative n; open_new_position and the
\* whole step of the replay give what they give for the unit cost {(t / |n|) CUR}
C25_TotalCostAsUnitCost ==
    last.op = "Complete" =>
        \A j \in TotalCostPostings :
            \A h \in HashOrders(last.before.running_balance) :
                is_opening_new(last.txn.postings[j].amount.val.number, LotsMet(j), h) =>
                    LET posting == last.txn.postings[j]
                        src == PostingSrc(last.txn.src, j)
                        bc == EnsureEntry(EmptyMap, posting.account, posting.amount.val.currency)
                        r == open_new_position(posting, src, last.txn.date, bc, EmptyMap)
                    IN  /\ r.tag = "Success"
                        /\ r.postings[1].cost.val.amount.number =
                               DecDiv(posting.cost.val.basis.val.amount.number,
                                      DecAbs(posting.amount.val.number))
                        /\ r.per_currency_change =
                               (posting.cost.val.basis.val.amount.currency :> SignedTotal(posting))
                        /\ r = open_new_position(AsUnitCost(posting), src, last.txn.date, bc, EmptyMap)
                        /\ ReplayCompleteTxn(last.txn, last.before, tolerances, h)
                               = ReplayCompleteTxn(WithUnitCost(j), last.before, tolerances, h)

\* the last step accepted a transaction that opens a lot with a total cost and a
\* negative number
C25_ShortAtTotalCost ==
    /\ Accepted
    /\ \E j \in TotalCostPostings :
           /\ DecLt(last.txn.postings[j].amount.val.number, Zero)
           /\ \A h \in HashOrders(last.before.running_balance) :
                  is_opening_new(last.txn.postings[j].amount.val.number, LotsMet(j), h)

(***************************************************************************)
(* Tolerances.                                                             *)
(***************************************************************************)
\* the tolerance of a currency as the draft gives it: the `tolerance` of the commodity,
\* else the option default_tolerance, else 0.006, without its sign
GivenTolerance(c) ==
    IF c \in DOMAIN draft.commodities /\ "tolerance" \in DOMAIN draft.commodities[c].meta
    THEN DecAbs(parse_decimal(draft.commodities[c].meta["tolerance"]).val)
    ELSE IF OPTION_DEFAULT_TOLERANCE \in DOMAIN draft.options
    THEN DecAbs(parse_decimal(draft.options[OPTION_DEFAULT_TOLERANCE].val).val)
    ELSE Frac(6, 1000)
\* numbers whose differences lie below, at and above the tolerances of the drafts
SampleNumbers == {Zero, Dec(1), Dec(2), Frac(6, 1000), Frac(1, 200)}
\* x is not zero and of the magnitude of the tolerance of c
AtTolerance(x, c) == ~DecIsZero(x) /\ DecAbs(x) = GivenTolerance(c)
RECURSIVE NetChange(_, _)
\* the sum of the price-adjusted numbers in currency c of the postings with an amount
NetChange(postings, c) ==
    IF postings = <<>> THEN Zero
    ELSE IF IsSome(Head(postings).amount) /\ PricedChange(Head(postings))[2] = c
    THEN DecAdd(PricedChange(Head(postings))[1], NetChange(Tail(postings), c))
    ELSE NetChange(Tail(postings), c)

\* C26: equal_within(l, r, c) is true exactly when l = r or |l - r| is strictly less
\* than the tolerance the draft gives for c.  A transaction without costs whose net
\* change in a currency is not zero and of the magnitude of the tolerance is not
\* balanced: it is rejected with NotBalanced, or its posting without amount gets the
\* negated net change; a Balance posting whose gap is not zero and of the magnitude of
\* the tolerance is padded or dropped with an error, not kept as it is
C26_StrictTolerance ==
    pc # "draft" =>
        /\ \A c \in Currencies, l \in SampleNumbers, r \in SampleNumbers :
               equal_within(l, r, c, tolerances)
                   <=> (l = r \/ DecLt(DecAbs(DecSub(l, r)), GivenTolerance(c)))
        /\ (last.op = "Complete" /\ CostPostings = {}) =>
               \A c \in Currencies :
                   AtTolerance(NetChange(last.txn.postings, c), c) =>
                       \/ /\ WithoutAmount(last.txn) = {}
                          /\ NewErrors = <<Error("NotBalanced", "Error", last.txn.src)>>
                          /\ valid_txns = last.before.valid_txns
                       \/ /\ Cardinality(WithoutAmount(last.txn)) = 1 /\ Accepted
                          /\ \E p \in Range(LastTxn.postings) :
                                 /\ p.src = PostingSrc(last.txn.src,
                                                       CHOOSE j \in WithoutAmount(last.txn) : TRUE)
                                 /\ p.amount = Amount(DecNeg(NetChange(last.txn.postings, c)), c)
                       \/ /\ Cardinality(WithoutAmount(last.txn)) > 1 /\ Rejected
        /\ \A j \in BalancePostings :
               (AssertsAmount(j) /\ Plain(j) /\ AtTolerance(Gap(j), AssertedCurrency(j))) =>
                   (Realized(j) /\ Kept(j)) \/ DroppedWithError(j)

\* with the tolerance 1 of a commodity whose `tolerance` is -1, the last step dropped
\* a Balance posting whose gap is 1; before it a transaction whose net change is that
\* tolerance got an inferred posting
C26_Witness ==
    /\ last.op = "Balance"
    /\ \E j \in BalancePostings :
           /\ AssertsAmount(j) /\ Plain(j) /\ AtTolerance(Gap(j), AssertedCurrency(j))
           /\ GivenTolerance(AssertedCurrency(j)) = Dec(1)
           /\ DroppedWithError(j)
    /\ \E t \in Range(valid_txns) :
           /\ t.flag = "Posted"
           /\ \E p \in Range(t.postings) :
                  AtTolerance(p.amount.number, p.amount.currency) /\ p.account = "B"

(***************************************************************************)
(* Pads.                                                                   *)
(***************************************************************************)
\* the currencies of the postings of the placeholder at position i of valid_txns
FilledIn(ts, i) == {p.amount.currency : p \in Range(ts[i].postings)}
\* the postings in currency c of a transaction
PostingsIn(t, c) == {i \in DOMAIN t.postings : t.postings[i].amount.currency = c}

\* C27: the currencies a pending pad has filled are those of the postings of its
\* placeholder; a Balance posting on the destination of a pending pad that has filled
\* the currency of the posting, with an assertion that is not within tolerance, is
\* dropped with an error (NotBalanced when it has no cost and no price), pushes
\* nothing on a placeholder and leaves the running balance as it was; no placeholder
\* holds more than two postings of one currency
C27_PadFillsCurrencyOnce ==
    /\ \A d \in DOMAIN pad_from :
           /\ valid_txns[pad_from[d].index + 1].flag = "Pad"
           /\ pad_from[d].currencies = FilledIn(valid_txns, pad_from[d].index + 1)
    /\ \A t \in Range(valid_txns) :
           t.flag = "Pad" => \A c \in Currencies : Cardinality(PostingsIn(t, c)) <= 2
    /\ \A j \in BalancePostings :
           (AssertsAmount(j) /\ PadPending(j) /\ Filled(j) /\ ~WithinTolerance(j)) =>
               /\ Dropped(j) /\ SheetUntouched(j) /\ ErrorAdded(j)
               /\ Plain(j) => AddedErrorType(j) = "NotBalanced"

\* the last step dropped a Balance posting on the destination of a pad that an
\* earlier Balance transaction had realized in the currency of the posting
C27_Witness ==
    /\ \E j \in BalancePostings :
           /\ AssertsAmount(j) /\ Plain(j) /\ PadPending(j) /\ Filled(j)
           /\ ~WithinTolerance(j) /\ Dropped(j)
           /\ Cardinality(PostingsIn(valid_txns[PadInfo(j).index + 1], AssertedCurrency(j))) = 2
           /\ \E t \in Range(last.before.valid_txns) :
                  /\ t.flag = "Balance"
                  /\ \E p \in Range(t.postings) :
                         p.account = Asserted(j).account /\ p.amount.currency = AssertedCurrency(j)

\* the accounts of the postings of a transaction
AccountsOf(txn) == {p.account : p \in Range(txn.postings)}
\* pad_to is the inverse of pad_from
IsInverse(to, from) ==
    /\ \A S \in DOMAIN to : \A D \in to[S] : D \in DOMAIN from /\ from[D].from = S
    /\ \A D \in DOMAIN from : from[D].from \in DOMAIN to /\ D \in to[from[D].from]
\* the pads the last Balance transaction invalidated before it checked its assertions
Invalidated == (DOMAIN last.before.pad_from) \ (DOMAIN last.trace[0].pad_from)

\* C28: a Balance transaction removes from pad_from, before it checks its assertions,
\* every pending pad whose source is an account of its postings, and no pad whose
\* source and destination are both outside its accounts; pad_to is the inverse of
\* pad_from after every directive
C28_PadToInverseOfPadFrom ==
    /\ IsInverse(pad_to, pad_from)
    /\ last.op = "Balance" =>
           /\ \A D \in DOMAIN last.before.pad_from :
                  last.before.pad_from[D].from \in AccountsOf(last.txn) => D \in Invalidated
           /\ \A D \in Invalidated :
                  \/ last.before.pad_from[D].from \in AccountsOf(last.txn)
                  \/ D \in AccountsOf(last.txn)

\* a destination padded again from another source is still listed under the first one
C28_StaleDestination ==
    \E S \in DOMAIN pad_to : \E D \in pad_to[S] :
        D \in DOMAIN pad_from /\ pad_from[D].from # S

\* the last Balance transaction invalidated a pad that touches none of its accounts
C28_ForeignPadInvalidated ==
    /\ last.op = "Balance"
    /\ \E D \in Invalidated :
           /\ last.before.pad_from[D].from \notin AccountsOf(last.txn)
           /\ D \notin AccountsOf(last.txn)

RECURSIVE PostedOn(_, _, _)
\* the sum of the numbers of the postings of a list on account a in currency c
PostedOn(postings, a, c) ==
    IF postings = <<>> THEN Zero
    ELSE DecAdd(IF Head(postings).account = a /\ Head(postings).amount.currency = c
                THEN Head(postings).amount.number ELSE Zero,
                PostedOn(Tail(postings), a, c))
RECURSIVE LedgerHolding(_, _, _, _)
\* what the first i transactions of a ledger, its Balance transactions aside, post on
\* account a in currency c
LedgerHolding(ts, i, a, c) ==
    IF i = 0 THEN Zero
    ELSE DecAdd(IF ts[i].flag = "Balance" THEN Zero ELSE PostedOn(ts[i].postings, a, c),
                LedgerHolding(ts, i - 1, a, c))
\* posting p of transaction i of the ledger asserts what the ledger holds before it
HoldsInLedger(ts, i, p) ==
    equal_within(LedgerHolding(ts, i - 1, p.account, p.amount.currency), p.amount.number,
                 p.amount.currency, tolerances)

\* C29: in the returned Ledger every posting of a Balance transaction asserts, within
\* tolerance, the sum of the numbers of the postings on its account in its currency
\* of the transactions before it that are no Balance transactions
C29_KeptBalanceHoldsInLedger ==
    pc = "done" =>
        \A i \in DOMAIN valid_txns :
            valid_txns[i].flag = "Balance" =>
                \A p \in Range(valid_txns[i].postings) : HoldsInLedger(valid_txns, i, p)

\* the last Balance transaction filled a pad whose placeholder precedes a Balance
\* posting kept earlier on the destination in the same currency
C29_PadFilledBehindKeptBalance ==
    /\ last.op = "Balance"
    /\ \E j \in BalancePostings :
           /\ AssertsAmount(j) /\ PadPending(j) /\ PadAppended(j) /\ Kept(j)
           /\ \E i \in DOMAIN Pre(j).valid_txns :
                  /\ i > PadInfo(j).index + 1
                  /\ Pre(j).valid_txns[i].flag = "Balance"
                  /\ \E p \in Range(Pre(j).valid_txns[i].postings) :
                         /\ p.account = Asserted(j).account
                         /\ p.amount.currency = AssertedCurrency(j)

(***************************************************************************)
(* The return of the workers.                                              *)
(***************************************************************************)
\* thread u is inside a parse_helper: the pass of the root over the root file or the
\* parse of a task
Parsing(u) == tpc[u] \in {"read", "parse", "notify_push"}
\* thread t returns from sub_worker in this step
Returns(t) == tpc[t] = "lock" /\ tpc'[t] \in {"returned", "merge"}
\* a worker thread has terminated
WorkerGone == \E t \in Threads \ {0} : tpc[t] = "returned"

\* C30: a thread returns from sub_worker only when the queue is empty and no thread,
\* the root included, is inside a parse; no task is pushed on the queue once a worker
\* thread has returned
C30_ReturnOnlyWhenAllIsParsed ==
    [][/\ \A t \in Threads :
              Returns(t) => queue = <<>> /\ \A u \in Threads : ~Parsing(u)
       /\ WorkerGone => pushed' = pushed]_vars

\* a worker has returned while the root is still in its pass over the root file with
\* an include ahead
C30_WorkerGoneRootParsing ==
    /\ WorkerGone
    /\ task[0] = RootTask /\ Parsing(0)
    /\ \E i \in DOMAIN fs["main"] : i >= pos[0] /\ fs["main"][i].kind = "include"

\* a task was pushed on the queue after a worker had returned
C30_PushedAfterWorkerGone ==
    /\ WorkerGone
    /\ queue # <<>>

(***************************************************************************)
(* The count of the tasks being parsed.                                    *)
(***************************************************************************)
\* the threads that have popped a task and not yet decremented the count
Counted ==
    {t \in Threads : task[t] \notin {RootTask, NoTask}
                     /\ tpc[t] \in {"read", "parse", "notify_push", "dec"}}
RECURSIVE ResultsPushed(_)
\* the number of results the threads of a set have pushed on their sub_drafts
ResultsPushed(ts) ==
    IF ts = {} THEN 0
    ELSE LET t == CHOOSE u \in ts : TRUE
         IN  Len(sub_drafts[t]) + ResultsPushed(ts \ {t})
\* the decrements made so far: one for every result, those of the threads that are
\* about to decrement aside
Decrements == ResultsPushed(Threads) - Cardinality({t \in Threads : tpc[t] = "dec"})

\* C31: the active count is the number of threads that have popped a task and not
\* yet decremented the count; it is never negative, and the pops made so far are the
\* decrements made so far plus the count
C31_CountIsThreadsInTask ==
    /\ active_count = Cardinality(Counted)
    /\ active_count >= 0
    /\ Len(popped) = active_count + Decrements

\* two threads are inside a task after an earlier task was finished and its count
\* given back
C31_Witness ==
    /\ active_count = 2
    /\ Cardinality(Counted) = 2
    /\ Decrements > 0

(***************************************************************************)
(* The lexer.  A source is the sequence of the lexemes logos cuts it into, *)
(* white space, comments and newlines included; the text of a lexeme is    *)
(* the sequence of its characters.                                         *)
(***************************************************************************)
Lexeme(kind, text) == [kind |-> kind, text |-> text]
Location(line, col) == [line |-> line, col |-> col]
\* the lexer: llex has yielded the lexemes before position i of the source
LexerState(i, location, last_token_end, peeked_token) ==
    [i |-> i, location |-> location, last_token_end |-> last_token_end,
     peeked_token |-> peeked_token]

RECURSIVE skip_comment_space(_, _)
\* llex.next() until a token that is no comment, newline or white space, which
\* becomes the peeked token; at the end of the source the peeked token stays as it is
skip_comment_space(src, lx) ==
    IF lx.i > Len(src) THEN lx
    ELSE CASE src[lx.i].kind = "Comment" ->
                  skip_comment_space(src, [lx EXCEPT !.i = @ + 1])
           [] src[lx.i].kind = "NewLine" ->
                  skip_comment_space(src, [lx EXCEPT !.i = @ + 1,
                                                     !.location = Location(@.line + 1, 1)])
           [] src[lx.i].kind = "WhiteSpace" ->
                  skip_comment_space(src,
                      [lx EXCEPT !.i = @ + 1,
                                 !.location = Location(@.line, @.col + Len(src[lx.i].text))])
           [] OTHER -> [lx EXCEPT !.i = @ + 1, !.peeked_token = Some(src[lx.i])]

Lexer_new(src) ==
    skip_comment_space(src, LexerState(1, Location(1, 1), Location(1, 1), None))

\* Lexer::consume, called with a peeked token: the column advances by the number of
\* characters of the token
consume(src, lx) ==
    skip_comment_space(src,
        [lx EXCEPT !.peeked_token = None,
                   !.location = Location(@.line, @.col + Len(lx.peeked_token.val.text)),
                   !.last_token_end = Location(lx.location.line,
                                               lx.location.col + Len(lx.peeked_token.val.text))])

(***************************************************************************)
(* The parsers of the directives on the tokens of the lexer.  The state is *)
(* the Parser with its lexer and the tasks it has pushed, the draft and    *)
(* the errors of parse_directives; of the draft the options and the        *)
(* commodities are kept, which decide whether a directive fails.  An Err   *)
(* is the state with the error pushed: n is the number of errors at the    *)
(* start of the directive.                                                 *)
(***************************************************************************)
TokenParser(src) ==
    [draft |-> DefaultDraft, errors |-> <<>>, tagset |-> {}, lexer |-> Lexer_new(src),
     sub_tasks |-> <<>>]
SrcAt(location) == <<"main", location.line, location.col>>
Failing(ps, n) == Len(ps.errors) > n
Peeked(ps) == ps.lexer.peeked_token
PeekIs(ps, kind) == IsSome(Peeked(ps)) /\ Peeked(ps).val.kind = kind
PeekedText(ps) == Peeked(ps).val.text
Consumed(src, ps) == [ps EXCEPT !.lexer = consume(src, @)]
\* the Err of Lexer::peek at the end of the source, of Lexer::take on another token
\* and of Parser::unexpected: a Syntax error at the location of the lexer
SyntaxError(ps) == Failed(ps, Error("Syntax", "Error", SrcAt(ps.lexer.location)))
take(src, ps, expected) ==
    IF PeekIs(ps, expected) THEN Consumed(src, ps) ELSE SyntaxError(ps)
\* the operator `?`: the parser goes on with F unless an Err was returned
AndThen(ps, n, F(_)) == IF Failing(ps, n) THEN ps ELSE F(ps)
remove_quotes(text) == SubSeq(text, 2, Len(text) - 1)

\* str::parse::<Date> on a text of the form dddd-dd-dd
DigitValue(c) ==
    CASE c = "0" -> 0 [] c = "1" -> 1 [] c = "2" -> 2 [] c = "3" -> 3 [] c = "4" -> 4
      [] c = "5" -> 5 [] c = "6" -> 6 [] c = "7" -> 7 [] c = "8" -> 8 [] c = "9" -> 9
YearOf(text) ==
    1000 * DigitValue(text[1]) + 100 * DigitValue(text[2]) + 10 * DigitValue(text[3])
        + DigitValue(text[4])
MonthOf(text) == 10 * DigitValue(text[6]) + DigitValue(text[7])
DayOf(text) == 10 * DigitValue(text[9]) + DigitValue(text[10])
IsLeapYear(y) == (y % 4 = 0 /\ y % 100 # 0) \/ y % 400 = 0
DaysInMonth(y, m) ==
    IF m = 2 THEN (IF IsLeapYear(y) THEN 29 ELSE 28)
    ELSE IF m \in {4, 6, 9, 11} THEN 30 ELSE 31
IsValidDate(text) ==
    /\ MonthOf(text) \in 1..12
    /\ DayOf(text) \in 1..DaysInMonth(YearOf(text), MonthOf(text))

push_tag_tokens(src, ps, n) ==
    LET p1 == take(src, ps, "PushTag")
        p2 == AndThen(p1, n, LAMBDA q : take(src, q, "Tag"))
    IN  AndThen(p2, n, LAMBDA q : parse_push_tag(q, PeekedText(p1), SrcAt(p1.lexer.location)))

pop_tag_tokens(src, ps, n) ==
    LET p1 == take(src, ps, "PopTag")
        p2 == AndThen(p1, n, LAMBDA q : take(src, q, "Tag"))
    IN  AndThen(p2, n, LAMBDA q : parse_pop_tag(q, PeekedText(p1), SrcAt(p1.lexer.location)))

\* parse_include with the path as written: the task is pushed
include_tokens(src, ps, n) ==
    LET p1 == take(src, ps, "Include")
        p2 == AndThen(p1, n, LAMBDA q : take(src, q, "String"))
    IN  AndThen(p2, n, LAMBDA q :
            [q EXCEPT !.sub_tasks =
                Append(@, Task(remove_quotes(PeekedText(p1)), SrcAt(ps.lexer.location)))])

option_tokens(src, ps, n) ==
    LET p1 == take(src, ps, "Option")
        p2 == AndThen(p1, n, LAMBDA q : take(src, q, "String"))
        p3 == AndThen(p2, n, LAMBDA q : take(src, q, "String"))
    IN  AndThen(p3, n, LAMBDA q :
            parse_option(q, [key |-> remove_quotes(PeekedText(p1)),
                             val |-> remove_quotes(PeekedText(p2))],
                         SrcAt(ps.lexer.location)))

RECURSIVE meta_tokens(_, _, _)
\* parse_meta: `label: "value"` as long as a label is peeked
meta_tokens(src, ps, n) ==
    IF Failing(ps, n) \/ ~PeekIs(ps, "MetaLabel") THEN ps
    ELSE meta_tokens(src, take(src, Consumed(src, ps), "String"), n)

commodity_tokens(src, ps, n) ==
    LET p1 == take(src, ps, "Commodity")
        p2 == AndThen(p1, n, LAMBDA q : take(src, q, "Currency"))
        p3 == AndThen(p2, n, LAMBDA q : meta_tokens(src, q, n))
    IN  AndThen(p3, n, LAMBDA q :
            parse_commodity(q, [currency |-> PeekedText(p1), meta |-> EmptyMap],
                            SrcAt(ps.lexer.location)))

\* parse_date
date_tokens(src, ps, n) ==
    AndThen(take(src, ps, "Date"), n, LAMBDA q :
        IF IsValidDate(PeekedText(ps)) THEN q
        ELSE Failed(q, Error("Syntax", "Error", SrcAt(ps.lexer.location))))

\* parse_amount, the number being one that parses
amount_tokens(src, ps, n) ==
    AndThen(take(src, ps, "Number"), n, LAMBDA q : take(src, q, "Currency"))

parse_cost_basis(src, ps, n) ==
    IF PeekIs(ps, "Number")
    THEN AndThen(amount_tokens(src, ps, n), n, LAMBDA q :
             IF PeekIs(q, "Comma") THEN date_tokens(src, Consumed(src, q), n) ELSE q)
    ELSE IF PeekIs(ps, "Date") THEN date_tokens(src, ps, n)
    ELSE ps

parse_cost(src, ps, n) ==
    IF PeekIs(ps, "LBrace") \/ PeekIs(ps, "LLBrace")
    THEN AndThen(parse_cost_basis(src, Consumed(src, ps), n), n, LAMBDA q :
             take(src, q, IF PeekIs(ps, "LBrace") THEN "RBrace" ELSE "RRBrace"))
    ELSE ps

parse_price(src, ps, n) ==
    IF PeekIs(ps, "AtUnit") \/ PeekIs(ps, "AtTotal")
    THEN amount_tokens(src, Consumed(src, ps), n)
    ELSE ps

RECURSIVE parse_postings(_, _, _)
\* parse_postings: a posting as long as an account is peeked
parse_postings(src, ps, n) ==
    IF Failing(ps, n) \/ ~PeekIs(ps, "Account") THEN ps
    ELSE LET p1 == Consumed(src, ps)
             p2 == IF PeekIs(p1, "Number")
                   THEN AndThen(AndThen(amount_tokens(src, p1, n), n,
                                        LAMBDA q : parse_cost(src, q, n)),
                                n, LAMBDA q : parse_price(src, q, n))
                   ELSE p1
         IN  parse_postings(src, AndThen(p2, n, LAMBDA q : meta_tokens(src, q, n)), n)

RECURSIVE links_and_tags(_, _)
\* the loop of parse_txn over the links and tags
links_and_tags(src, ps) ==
    IF PeekIs(ps, "Link") \/ PeekIs(ps, "Tag") THEN links_and_tags(src, Consumed(src, ps))
    ELSE ps

\* parse_txn after the flag: payee and narration, with the two `peek()?` of the code
payee_and_narration(src, ps) ==
    IF IsNone(Peeked(ps)) THEN SyntaxError(ps)
    ELSE IF ~PeekIs(ps, "String") THEN ps
    ELSE IF IsNone(Peeked(Consumed(src, ps))) THEN SyntaxError(Consumed(src, ps))
    ELSE IF PeekIs(Consumed(src, ps), "String") THEN Consumed(src, Consumed(src, ps))
    ELSE Consumed(src, ps)

txn_tokens(src, ps, n) ==
    LET p1 == payee_and_narration(src, Consumed(src, ps))
        p2 == AndThen(p1, n, LAMBDA q : meta_tokens(src, links_and_tags(src, q), n))
    IN  AndThen(p2, n, LAMBDA q : parse_postings(src, q, n))

\* parse_currency_set
RECURSIVE more_currencies(_, _, _)
more_currencies(src, ps, n) ==
    IF Failing(ps, n) \/ ~PeekIs(ps, "Comma") THEN ps
    ELSE more_currencies(src, take(src, Consumed(src, ps), "Currency"), n)
parse_currency_set(src, ps, n) ==
    IF PeekIs(ps, "Currency") THEN more_currencies(src, Consumed(src, ps), n) ELSE ps

open_tokens(src, ps, n) ==
    LET p1 == take(src, Consumed(src, ps), "Account")
        p2 == AndThen(p1, n, LAMBDA q : parse_currency_set(src, q, n))
    IN  AndThen(p2, n, LAMBDA q : meta_tokens(src, q, n))

\* parse_close; parse_note and parse_document; parse_event
close_tokens(src, ps, n) == take(src, Consumed(src, ps), "Account")
note_tokens(src, ps, n) ==
    AndThen(take(src, Consumed(src, ps), "Account"), n, LAMBDA q : take(src, q, "String"))
event_tokens(src, ps, n) ==
    AndThen(take(src, Consumed(src, ps), "String"), n, LAMBDA q : take(src, q, "String"))

\* the match of parse_dated_entry on the token after the date
dated_entry_kind(src, ps, n) ==
    IF IsNone(Peeked(ps)) THEN SyntaxError(ps)
    ELSE CASE Peeked(ps).val.kind \in {"Asterisk", "QuestionMark", "Txn", "Balance", "Pad"} ->
                  txn_tokens(src, ps, n)
           [] Peeked(ps).val.kind = "Open" -> open_tokens(src, ps, n)
           [] Peeked(ps).val.kind = "Close" -> close_tokens(src, ps, n)
           [] Peeked(ps).val.kind \in {"Document", "Note"} -> note_tokens(src, ps, n)
           [] Peeked(ps).val.kind = "Event" -> event_tokens(src, ps, n)
           [] Peeked(ps).val.kind = "Commodity" -> commodity_tokens(src, ps, n)
           [] OTHER -> SyntaxError(ps)

dated_entry_tokens(src, ps, n) ==
    AndThen(date_tokens(src, ps, n), n, LAMBDA q : dated_entry_kind(src, q, n))

\* the tokens at which parse_directives resumes after an error
DirectiveStarters == {"Option", "Include", "Date", "PushTag", "Commodity"}

\* the loop after an Err that consumes nothing
SkipToDirective_skipping_nothing(src, ps) == ps

RECURSIVE SkipToDirective(_, _)
\* the loop of parse_directives after an Err: the tokens are consumed up to the next
\* Option, Include, Date, PushTag or Commodity
SkipToDirective(src, ps) ==
    IF IsNone(Peeked(ps)) \/ Peeked(ps).val.kind \in DirectiveStarters THEN ps
    ELSE SkipToDirective(src, Consumed(src, ps))

\* the match of parse_directives on the peeked token
directive_tokens(src, ps, n) ==
    CASE PeekIs(ps, "Include") -> include_tokens(src, ps, n)
      [] PeekIs(ps, "Option") -> option_tokens(src, ps, n)
      [] PeekIs(ps, "Commodity") -> commodity_tokens(src, ps, n)
      [] PeekIs(ps, "Date") -> dated_entry_tokens(src, ps, n)
      [] PeekIs(ps, "PushTag") -> push_tag_tokens(src, ps, n)
      [] PeekIs(ps, "PopTag") -> pop_tag_tokens(src, ps, n)
      [] OTHER -> SyntaxError(ps)

\* one round of the loop of parse_directives, a token being peeked
parse_directives_round(src, ps) ==
    IF Failing(directive_tokens(src, ps, Len(ps.errors)), Len(ps.errors))
    THEN SkipToDirective(src, directive_tokens(src, ps, Len(ps.errors)))
    ELSE directive_tokens(src, ps, Len(ps.errors))

(***************************************************************************)
(* parse_directives on one file: the sources of SpecTokens are the         *)
(* sequences of at most MaxTokens tokens of TokenMenu.  cur[0] is the      *)
(* Parser with its lexer, last the round of the loop that was run last.    *)
(***************************************************************************)
MaxTokens == 4

TokenMenu ==
    {Lexeme("Option", <<"o", "p", "t", "i", "o", "n">>),
     Lexeme("Include", <<"i", "n", "c", "l", "u", "d", "e">>),
     Lexeme("Commodity", <<"c", "o", "m", "m", "o", "d", "i", "t", "y">>),
     Lexeme("PushTag", <<"p", "u", "s", "h", "t", "a", "g">>),
     Lexeme("PopTag", <<"p", "o", "p", "t", "a", "g">>),
     Lexeme("Asterisk", <<"*">>),
     Lexeme("String", <<"\"", "a", "\"">>),
     Lexeme("Tag", <<"#", "x">>),
     Lexeme("Date", <<"2", "0", "2", "0", "-", "0", "1", "-", "0", "1">>),
     Lexeme("Date", <<"2", "0", "2", "0", "-", "1", "3", "-", "0", "1">>),
     Lexeme("Account", <<"A", ":", "b">>)}

TokenLists == UNION {[1..n -> TokenMenu] : n \in 0..MaxTokens}

InitTokens ==
    /\ fs \in {[f \in {"main"} |-> l] : l \in TokenLists}
    /\ num_threads = 1
    /\ tpc = [t \in Threads |-> IF t = 0 THEN "read" ELSE "unborn"]
    /\ task = [t \in Threads |-> IF t = 0 THEN RootTask ELSE NoTask]
    /\ pos = [t \in Threads |-> 0]
    /\ cur = [t \in Threads |-> NewParser]
    /\ root = [draft |-> DefaultDraft, errors |-> <<>>]
    /\ queue = <<>>
    /\ active_count = 0
    /\ handlers = None
    /\ waiting = {}
    /\ sub_drafts = [t \in Threads |-> <<>>]
    /\ results = <<>>
    /\ joined = 0
    /\ pushed = <<>>
    /\ popped = <<>>
    /\ merged = <<>>
    /\ draft = DefaultDraft
    /\ InitChecker

\* parse_helper: the file is read and the Parser made, with Lexer::new
OpenSource ==
    /\ tpc[0] = "read"
    /\ cur' = [cur EXCEPT ![0] = TokenParser(fs["main"])]
    /\ tpc' = [tpc EXCEPT ![0] = "parse"]
    /\ UNCHANGED <<fs, num_threads, task, pos, root, queue, active_count, handlers, waiting,
                   sub_drafts, results, joined, pushed, popped, merged>>
    /\ UNCHANGED checker_vars

\* one round of `while let Ok((token, text)) = self.lexer.peek()`; the first include
\* makes the queue and, with one thread, no worker
DirectiveRound ==
    /\ tpc[0] = "parse" /\ IsSome(Peeked(cur[0]))
    /\ cur' = [cur EXCEPT ![0] = parse_directives_round(fs["main"], @)]
    /\ queue' = cur'[0].sub_tasks
    /\ pushed' = cur'[0].sub_tasks
    /\ handlers' = IF cur'[0].sub_tasks # <<>> THEN Some(<<>>) ELSE handlers
    /\ last' = [op |-> "Round", before |-> cur[0]]
    /\ UNCHANGED <<fs, num_threads, tpc, task, pos, root, active_count, waiting, sub_drafts,
                   results, joined, popped, merged>>
    /\ UNCHANGED <<pc, draft, valid_accounts, tolerances, txns, valid_txns, running_balance,
                   pad_from, pad_to, errors>>

\* peek is Err: parse_directives returns
DirectivesEnd ==
    /\ tpc[0] = "parse" /\ IsNone(Peeked(cur[0]))
    /\ root' = [draft |-> cur[0].draft, errors |-> cur[0].errors]
    /\ tpc' = [tpc EXCEPT ![0] = IF IsSome(handlers) THEN "lock" ELSE "returned"]
    /\ UNCHANGED <<fs, num_threads, task, pos, cur, queue, active_count, handlers, waiting,
                   sub_drafts, results, joined, pushed, popped, merged>>
    /\ UNCHANGED checker_vars

NextTokens == OpenSource \/ DirectiveRound \/ DirectivesEnd

SpecTokens == InitTokens /\ [][NextTokens]_vars

\* parse_directives runs on until it returns
FairSpecTokens == SpecTokens /\ WF_vars(NextTokens)

(***************************************************************************)
(* The claims on parse_directives and on the lexer.                        *)
(***************************************************************************)
\* the lexemes of the source the lexer has not consumed, the peeked token included
LexemesLeft(ps) ==
    Len(fs["main"]) + 1 - ps.lexer.i + (IF IsSome(Peeked(ps)) THEN 1 ELSE 0)
RoundDone == last.op = "Round"
\* the parser as the directive of the last round left it, before the recovery
AfterDirective == directive_tokens(fs["main"], last.before, Len(last.before.errors))
RoundFailed == Len(cur[0].errors) > Len(last.before.errors)
\* the positions in the source of the tokens the recovery of the last round consumed
Skipped == (AfterDirective.lexer.i - 1)..(cur[0].lexer.i - 2)
DirectivesReturned == tpc[0] \notin {"read", "parse"}

\* what a round of the loop of parse_directives does
RoundConsumes ==
    RoundDone =>
        /\ LexemesLeft(cur[0]) < LexemesLeft(last.before)
        /\ Len(cur[0].errors) <= Len(last.before.errors) + 1
        /\ SubSeq(cur[0].errors, 1, Len(last.before.errors)) = last.before.errors
        /\ RoundFailed =>
               /\ IsNone(Peeked(cur[0])) \/ Peeked(cur[0]).val.kind \in DirectiveStarters
               /\ IsSome(Peeked(AfterDirective)) =>
                      \A i \in Skipped : fs["main"][i].kind \notin DirectiveStarters
        /\ ~RoundFailed => cur[0].lexer = AfterDirective.lexer

\* C32: every round of the loop of parse_directives consumes at least one token and
\* pushes at most one error; after an error the lexer is at the next token of kind
\* option, include, date, pushtag or commodity, or at the end of the source; and
\* parse_directives returns
C32_ParseDirectivesTerminates == [](RoundConsumes) /\ <>(DirectivesReturned)

\* the last round failed on a directive whose first token it had consumed, skipped
\* two tokens and stopped at the first token of the next directive
C32_Witness ==
    /\ RoundDone /\ RoundFailed
    /\ Peeked(last.before).val.kind \in DirectiveStarters
    /\ AfterDirective.lexer.i > last.before.lexer.i
    /\ Cardinality(Skipped) = 2
    /\ IsSome(Peeked(cur[0]))

(***************************************************************************)
(* The lexer on its own: the sources of SpecLexer are the sequences of at  *)
(* most MaxTokens lexemes of LexemeMenu that logos can yield; the tokens   *)
(* are consumed one after the other.                                       *)
(***************************************************************************)
LexemeMenu ==
    {Lexeme("WhiteSpace", <<" ">>),
     Lexeme("WhiteSpace", <<" ", "\t">>),
     Lexeme("NewLine", <<"\n">>),
     Lexeme("Comment", <<";", "c">>),
     Lexeme("Option", <<"o", "p", "t", "i", "o", "n">>),
     Lexeme("String", <<"\"", "a", "\"">>),
     Lexeme("String", <<"\"", "a", "\n", "b", "\"">>),
     Lexeme("Tag", <<"#", "é">>)}

\* a comment runs to the end of its line, a tag to the next white space, and white
\* space is one lexeme
Adjacent(l, r) ==
    /\ l.kind = "Comment" => r.kind = "NewLine"
    /\ l.kind = "Tag" => r.kind \in {"WhiteSpace", "NewLine"}
    /\ l.kind = "WhiteSpace" => r.kind # "WhiteSpace"
LexemeLists ==
    {l \in UNION {[1..n -> LexemeMenu] : n \in 0..MaxTokens} :
        \A i \in 1..(Len(l) - 1) : Adjacent(l[i], l[i + 1])}

InitLexer ==
    /\ fs \in {[f \in {"main"} |-> l] : l \in LexemeLists}
    /\ num_threads = 1
    /\ tpc = [t \in Threads |-> IF t = 0 THEN "read" ELSE "unborn"]
    /\ task = [t \in Threads |-> IF t = 0 THEN RootTask ELSE NoTask]
    /\ pos = [t \in Threads |-> 0]
    /\ cur = [t \in Threads |-> NewParser]
    /\ root = [draft |-> DefaultDraft, errors |-> <<>>]
    /\ queue = <<>>
    /\ active_count = 0
    /\ handlers = None
    /\ waiting = {}
    /\ sub_drafts = [t \in Threads |-> <<>>]
    /\ results = <<>>
    /\ joined = 0
    /\ pushed = <<>>
    /\ popped = <<>>
    /\ merged = <<>>
    /\ draft = DefaultDraft
    /\ InitChecker

\* Lexer::consume on the peeked token
ConsumeToken ==
    /\ tpc[0] = "parse" /\ IsSome(Peeked(cur[0]))
    /\ cur' = [cur EXCEPT ![0] = Consumed(fs["main"], @)]
    /\ last' = [op |-> "Consume", before |-> cur[0]]
    /\ UNCHANGED <<fs, num_threads, tpc, task, pos, root, queue, active_count, handlers,
                   waiting, sub_drafts, results, joined, pushed, popped, merged>>
    /\ UNCHANGED <<pc, draft, valid_accounts, tolerances, txns, valid_txns, running_balance,
                   pad_from, pad_to, errors>>

NextLexer == OpenSource \/ ConsumeToken

SpecLexer == InitLexer /\ [][NextLexer]_vars

RECURSIVE TextBefore(_, _)
\* the characters of the source before its k-th lexeme
TextBefore(src, k) ==
    IF k <= 1 THEN <<>> ELSE TextBefore(src, k - 1) \o src[k - 1].text
NewlinesIn(text) == Cardinality({i \in DOMAIN text : text[i] = "\n"})
\* the characters of a text after its last newline
AfterLastNewline(text) ==
    Cardinality({i \in DOMAIN text : \A j \in i..Len(text) : text[j] # "\n"})
\* line and column of the k-th lexeme of the source, counted on its characters
PlaceOf(src, k) ==
    Location(1 + NewlinesIn(TextBefore(src, k)), 1 + AfterLastNewline(TextBefore(src, k)))

\* C33: after Lexer::new and after every consume, the location of the lexer is the
\* line and the column of the peeked token in the source
C33_LocationOfPeekedToken ==
    (tpc[0] = "parse" /\ IsSome(Peeked(cur[0]))) =>
        cur[0].lexer.location = PlaceOf(fs["main"], cur[0].lexer.i - 1)

\* a string with a newline in it was consumed and a token is peeked after it
C33_AfterStringOfTwoLines ==
    /\ last.op = "Consume"
    /\ Peeked(last.before).val.kind = "String"
    /\ NewlinesIn(PeekedText(last.before)) > 0
    /\ IsSome(Peeked(cur[0]))

\* the location is right as long as no string with a newline in it was consumed
C33_RightWithoutNewlineInString ==
    (/\ tpc[0] = "parse" /\ IsSome(Peeked(cur[0]))
     /\ \A k \in 1..(cur[0].lexer.i - 2) :
            fs["main"][k].kind = "String" => NewlinesIn(fs["main"][k].text) = 0) =>
        cur[0].lexer.location = PlaceOf(fs["main"], cur[0].lexer.i - 1)

(***************************************************************************)
(* The signs of the lots of an account.                                    *)
(***************************************************************************)
\* the lots held at cost of an account and currency of the running balance
CostLots(ac) == {k \in DOMAIN running_balance[ac] : IsSome(k)}
\* one lot of the account and currency is long and another is short
MixedSigns(ac) ==
    \E k1, k2 \in CostLots(ac) :
        /\ DecLt(Zero, running_balance[ac][k1])
        /\ DecLt(running_balance[ac][k2], Zero)

\* C34: in every state of the replay the lots held at cost of one account and
\* currency that are not zero have the same sign
C34_LotsOfOneSign == \A ac \in DOMAIN running_balance : ~MixedSigns(ac)

\* an accepted transaction left a long lot and a short lot side by side
C34_LongAndShortLot ==
    /\ Accepted
    /\ \E ac \in DOMAIN running_balance : MixedSigns(ac)

(***************************************************************************)
(* The default entry of the tolerance table.                               *)
(***************************************************************************)
\* the draft gives a default_tolerance that parse_decimal accepts
ValidDefaultGiven ==
    /\ OPTION_DEFAULT_TOLERANCE \in DOMAIN draft.options
    /\ IsSome(parse_decimal(draft.options[OPTION_DEFAULT_TOLERANCE].val))

\* C35: the table extract_tolerance builds holds the default entry whatever the
\* options and the metadata of the commodities are, and the entry is 0.006 when the
\* draft gives no valid default_tolerance
C35_DefaultToleranceAlwaysPresent ==
    pc # "draft" =>
        /\ TOLERANCE_KEY_DEFAULT \in DOMAIN tolerances
        /\ ~ValidDefaultGiven => tolerances[TOLERANCE_KEY_DEFAULT] = DefaultTolerance

\* the option default_tolerance is no decimal: the error is reported, the table has
\* no default entry and the replay has panicked
C35_PanicWithoutDefault ==
    /\ pc = "panic"
    /\ OPTION_DEFAULT_TOLERANCE \in DOMAIN draft.options
    /\ TOLERANCE_KEY_DEFAULT \notin DOMAIN tolerances
    /\ \E i \in DOMAIN errors : errors[i].type = "Syntax"

(***************************************************************************)
(* The merge of the drafts of an account.  In SpecMerge the root, the only *)
(* thread, has parsed its file and one task and is about to merge the      *)
(* result: cur[0] keeps the draft of the root as parsed, sub_drafts[0] the *)
(* result.  Both drafts hold the account A.                                *)
(***************************************************************************)
InfoOf(open, currencies, close, notes, docs, meta) ==
    [AccountInfoDraft(open, close, currencies, notes) EXCEPT !.docs = docs, !.meta = meta]
MetaMenu == {EmptyMap, [k \in {"k"} |-> "1"], [k \in {"k"} |-> "2"]}
\* drafts of A: never opened, opened on day 1 for USD or on day 2 for any currency;
\* closed on day 2 or not; with a note and a document or without
InfoMenu ==
    {InfoOf(o[1], o[2], c, n[1], n[2], m) :
        o \in {<<None, {}>>, <<Some(1), {"USD"}>>, <<Some(2), {}>>},
        c \in {None, Some(2)},
        n \in {<<<<>>, <<>>>>, <<<<1>>, <<2>>>>},
        m \in MetaMenu}
DraftOfA(info) == LedgerDraft([a \in {"A"} |-> info], EmptyMap, EmptyMap, <<>>)
IncludedTask == Task("x", <<"main", 1, 0>>)

InitMerge ==
    /\ \E self \in InfoMenu, another \in InfoMenu :
           /\ cur = [t \in Threads |->
                        IF t = 0 THEN ParserState(DraftOfA(self), <<>>, {}) ELSE NewParser]
           /\ root = [draft |-> DraftOfA(self), errors |-> <<>>]
           /\ sub_drafts = [t \in Threads |->
                               IF t = 0 THEN <<[task |-> IncludedTask,
                                                draft |-> DraftOfA(another),
                                                errors |-> <<>>]>>
                               ELSE <<>>]
    /\ results = sub_drafts[0]
    /\ fs = EmptyMap
    /\ num_threads = 1
    /\ tpc = [t \in Threads |-> IF t = 0 THEN "merge" ELSE "unborn"]
    /\ task = [t \in Threads |-> IF t = 0 THEN IncludedTask ELSE NoTask]
    /\ pos = [t \in Threads |-> 0]
    /\ queue = <<>>
    /\ active_count = 0
    /\ handlers = Some(<<>>)
    /\ waiting = {}
    /\ joined = 0
    /\ pushed = <<IncludedTask>>
    /\ popped = <<<<IncludedTask, 0>>>>
    /\ merged = <<>>
    /\ draft = DefaultDraft
    /\ InitChecker

NextMerge == MergeResult \/ ParseReturn

SpecMerge == InitMerge /\ [][NextMerge]_vars

\* the receiving draft of A, the draft merged into it, and the draft after the merge
Receiving == cur[0].draft.accounts["A"]
Another == sub_drafts[0][1].draft.accounts["A"]
AfterAccountMerge == root.draft.accounts["A"]
DuplicateReported == \E i \in DOMAIN root.errors : root.errors[i].type = "Duplicate"

\* C36: when the merge of the drafts of an account reports a Duplicate error, which it
\* does exactly when both hold an open or both hold a close, the receiving draft is
\* left as it was in every field; otherwise it holds the notes and docs of both, the
\* open and the currencies of the draft that had an open, and the close of the draft
\* that had a close
C36_MergeAllOrNothing ==
    merged # <<>> =>
        /\ DuplicateReported <=>
               \/ IsSome(Receiving.open) /\ IsSome(Another.open)
               \/ IsSome(Receiving.close) /\ IsSome(Another.close)
        /\ DuplicateReported => AfterAccountMerge = Receiving
        /\ ~DuplicateReported =>
               /\ AfterAccountMerge.notes = Receiving.notes \o Another.notes
               /\ AfterAccountMerge.docs = Receiving.docs \o Another.docs
               /\ \A d \in {Receiving, Another} :
                      /\ IsSome(d.open) =>
                             /\ AfterAccountMerge.open = d.open
                             /\ AfterAccountMerge.currencies = d.currencies
                      /\ IsSome(d.close) => AfterAccountMerge.close = d.close

\* a merge was refused for a second open although the other draft brought a close,
\* a note, a document and other metadata
C36_Witness ==
    /\ merged # <<>> /\ DuplicateReported
    /\ IsSome(Receiving.open) /\ IsSome(Another.open)
    /\ IsNone(Receiving.close) /\ IsSome(Another.close)
    /\ Another.notes # <<>> /\ Another.docs # <<>>
    /\ Another.meta # Receiving.meta /\ Another.meta # EmptyMap
    /\ Another.currencies # Receiving.currencies

====
